---- MODULE Spec2Model ----
(***************************************************************************)
(* Model of approach/utils/merge_tests.py: the Merger (line buffer plus    *)
(* structural index) and the merge_tests orchestrator.                     *)
(*                                                                         *)
(* Source text is a sequence of lines.  A line is a record                 *)
(*   ind  : number of leading blanks                                       *)
(*   kind : "blank" | "comment" | "import" | "class" | "def" | "async" |   *)
(*          "deco" | "if" | "stmt" | "bad"                                 *)
(*   name : class / callable name, imported module, decorator expression   *)
(*          or statement text                                              *)
(*   sig  : the parameter list of a def line                               *)
(*   inl  : the statement written after the colon of a one-line def        *)
(*          ("" when the body starts on the next line)                     *)
(*   fmt  : 0 canonical text, 1 trailing blanks, 2 different inner spacing *)
(*   nl   : the line ends with a line terminator                           *)
(***************************************************************************)
EXTENDS Integers, Sequences, FiniteSets, TLC

NoSig == [posonly |-> <<>>, args |-> <<>>, vararg |-> "None",
          kwonly |-> <<>>, kwarg |-> "None"]

Ln(ind, kind, name) ==
  [ind |-> ind, kind |-> kind, name |-> name, sig |-> NoSig, inl |-> "",
   fmt |-> 0, nl |-> TRUE]

Blank == Ln(0, "blank", "")

DefLn(ind, name, sig, inl) == [Ln(ind, "def", name) EXCEPT !.sig = sig, !.inl = inl]

Args(a) == [NoSig EXCEPT !.args = a]

(***************************************************************************)
(* Generic helpers on finite sets of line numbers.                         *)
(***************************************************************************)
SetMax(S) == CHOOSE x \in S : \A y \in S : y <= x

SetMin(S) == CHOOSE x \in S : \A y \in S : x <= y

RECURSIVE SortedSeq(_)
SortedSeq(S) == IF S = {} THEN <<>> ELSE <<SetMin(S)>> \o SortedSeq(S \ {SetMin(S)})

RECURSIVE Flatten(_)
Flatten(ss) == IF ss = <<>> THEN <<>> ELSE Head(ss) \o Flatten(Tail(ss))

Slice(s, a, b) == IF a > b THEN <<>> ELSE SubSeq(s, a, b)

(***************************************************************************)
(* str.strip(): a line has content unless it is blank.                     *)
(***************************************************************************)
HasText(l) == l.kind # "blank"

AnyText(L) == \E i \in DOMAIN L : HasText(L[i])

\* The lines the tokenizer yields tokens for (comments and blank lines yield none).
CodeIdx(L) == {i \in DOMAIN L : L[i].kind \notin {"blank", "comment"}}

HeaderKinds == {"class", "def", "async", "if"}

IsHeader(l) == l.kind \in HeaderKinds /\ l.inl = ""

\* The indentation rule for code line k, whose preceding code line is p
\* (0: none), among the code lines C.
LineOK(L, C, p, k) ==
  IF p = 0 THEN L[k].ind = 0
  ELSE IF IsHeader(L[p]) THEN L[k].ind > L[p].ind
  ELSE IF L[p].kind = "deco"
    THEN L[k].ind = L[p].ind /\ L[k].kind \in {"deco", "def", "class", "async"}
  ELSE /\ L[k].ind <= L[p].ind
       /\ LET lower == {r \in C : r < k /\ L[r].ind < L[k].ind}
              from == IF lower = {} THEN 0 ELSE SetMax(lower)
          IN  \* a dedent returns to the indentation of a block that is still open
              \E q \in C : from < q /\ q < k /\ L[q].ind = L[k].ind

(***************************************************************************)
(* ast.parse succeeds: the indentation rules of the language.              *)
(***************************************************************************)
ParseOK(L) ==
  LET C == CodeIdx(L)
      c == SortedSeq(C)
  IN  /\ \A x \in DOMAIN L : L[x].kind # "bad"
      /\ \A k \in DOMAIN c : LineOK(L, C, IF k = 1 THEN 0 ELSE c[k - 1], c[k])
      /\ c # <<>> => ~IsHeader(L[c[Len(c)]]) /\ L[c[Len(c)]].kind # "deco"

\* end_lineno of the statement that starts at line x.
BlockEnd(L, C, x) ==
  IF IsHeader(L[x])
    THEN LET out == {r \in C : r > x /\ L[r].ind <= L[x].ind}
             stop == IF out = {} THEN Len(L) + 1 ELSE SetMin(out)
         IN  SetMax({r \in C : r >= x /\ r < stop})
    ELSE x

\* The statements of the block of header line x (decorator lines belong to
\* the definition they precede).
ChildIdx(L, C, x) ==
  LET after == {r \in C : r > x}
      e == BlockEnd(L, C, x)
  IN  IF ~IsHeader(L[x]) \/ after = {} THEN {}
      ELSE LET b == L[SetMin(after)].ind
           IN  {k \in C : x < k /\ k <= e /\ L[k].ind = b /\ L[k].kind # "deco"}

DecoIdx(L, C, x) ==
  IF L[x].kind \notin {"def", "class", "async"} THEN {}
  ELSE LET other == {r \in C : r < x /\ L[r].kind # "deco"}
           from == IF other = {} THEN 0 ELSE SetMax(other)
       IN  {d \in C : from < d /\ d < x}

\* The node of a statement written on the def line itself.
InlineNode(L, x) ==
  [kind |-> "stmt", name |-> L[x].inl, sig |-> NoSig, lineno |-> x,
   end_lineno |-> x, decos |-> <<>>, body |-> <<>>]

\* The modules imported by the statements of an import line: a line may hold
\* several statements separated by ";" ("import os; import sys").
ImportNames(name) ==
  CASE name = "os;sys" -> <<"os", "sys">>
    [] name = "sys;json" -> <<"sys", "json">>
    [] name = "json;n0" -> <<"json", "n0">>
    [] OTHER -> <<name>>

\* The module names of the texts; any other statement of an import line is an
\* assignment (import json; n0 = 1).
Modules == {"os", "sys", "json"}

RECURSIVE Node(_, _, _, _)
RECURSIVE StmtNodes(_, _, _, _)
Node(L, C, x, depth) ==
  [kind |-> L[x].kind, name |-> L[x].name, sig |-> L[x].sig,
   lineno |-> x, end_lineno |-> BlockEnd(L, C, x),
   decos |-> SortedSeq(DecoIdx(L, C, x)),
   body |-> IF depth = 0 THEN <<>>
            ELSE IF L[x].kind \in HeaderKinds /\ L[x].inl # ""
              THEN <<InlineNode(L, x)>>
            ELSE LET c == SortedSeq(ChildIdx(L, C, x))
                 IN  Flatten([k \in 1..Len(c) |-> StmtNodes(L, C, c[k], depth - 1)])]

\* The statement nodes of line x: one node, or one Import node per statement
\* of an import line.
StmtNodes(L, C, x, depth) ==
  IF L[x].kind = "import"
    THEN [k \in DOMAIN ImportNames(L[x].name) |->
            [Node(L, C, x, depth) EXCEPT
               !.name = ImportNames(L[x].name)[k],
               !.kind = IF ImportNames(L[x].name)[k] \in Modules THEN "import" ELSE "stmt"]]
    ELSE <<Node(L, C, x, depth)>>

\* ast.parse(src).body; NestDepth levels of bodies are kept below a top-level node.
NestDepth == 2

ModuleBody(L) ==
  LET C == CodeIdx(L)
      t == SortedSeq({x \in C : L[x].ind = 0 /\ L[x].kind # "deco"})
  IN  Flatten([k \in 1..Len(t) |-> StmtNodes(L, C, t[k], NestDepth)])

\* ast.dump(node) of an import: structure only, neither spacing nor position.
Dump(n) == [kind |-> n.kind, name |-> n.name]

IsImport(n) == n.kind = "import"

IsClassDef(n) == n.kind = "class"

IsFunctionDef(n) == n.kind = "def"

(***************************************************************************)
(* String helpers.                                                         *)
(***************************************************************************)
RECURSIVE DropTrailingBlank(_)
DropTrailingBlank(S) ==
  IF S = <<>> \/ HasText(S[Len(S)]) THEN S
  ELSE DropTrailingBlank(SubSeq(S, 1, Len(S) - 1))

\* str.rstrip(): trailing blank lines, trailing blanks and the last terminator go.
RStrip(S) ==
  LET D == DropTrailingBlank(S) IN
  IF D = <<>> THEN <<>>
  ELSE [D EXCEPT ![Len(D)] =
          [@ EXCEPT !.nl = FALSE, !.fmt = IF @ = 1 THEN 0 ELSE @]]

\* str.strip() of the text of one line: indentation, trailing blanks, terminator.
Strip(l) == [l EXCEPT !.ind = 0, !.nl = FALSE, !.fmt = IF @ = 1 THEN 0 ELSE @]

\* s.rstrip('\r\n') + '\n' when s has text and does not end with a terminator.
EndNL(S) ==
  IF AnyText(S) /\ ~S[Len(S)].nl THEN [S EXCEPT ![Len(S)].nl = TRUE] ELSE S

\* str.splitlines(keepends=True) of a source text, and "".join of it, are the
\* identity on this representation.

get_leading_whitespace(l) == l.ind

\* textwrap.dedent
dedent(S) ==
  LET T == {i \in DOMAIN S : HasText(S[i])}
      margin == IF T = {} THEN 0 ELSE SetMin({S[i].ind : i \in T})
  IN  [i \in DOMAIN S |->
         IF HasText(S[i]) THEN [S[i] EXCEPT !.ind = @ - margin]
         ELSE [S[i] EXCEPT !.ind = 0]]

_reindent(snippet, base_indent) ==
  LET d == dedent(snippet) IN
  IF d = <<>> THEN <<>>
  ELSE IF ~AnyText(d) THEN [i \in DOMAIN d |-> Blank]
  ELSE LET r == [i \in DOMAIN d |->
                   IF HasText(d[i]) THEN [d[i] EXCEPT !.ind = @ + base_indent, !.nl = TRUE]
                   ELSE Blank]
       IN  \* "\n".join(...) already ends with a terminator when the last line is empty
           IF HasText(r[Len(r)]) THEN r ELSE SubSeq(r, 1, Len(r) - 1)

_splice(lines, pos, payload) ==
  LET actual == IF pos < 0 THEN 0 ELSE IF pos > Len(lines) THEN Len(lines) ELSE pos
  IN  Slice(lines, 1, actual) \o payload \o Slice(lines, actual + 1, Len(lines))

\* Imports always go to the top of the buffer.
_last_import_line_top(tree) == 0

_last_import_line(tree) ==
  LET E == {tree[k].end_lineno : k \in {j \in DOMAIN tree : IsImport(tree[j])}}
  IN  IF E = {} THEN 0 ELSE SetMax(E)

_get_node_source_segment_v2(src, node) ==
  LET start == IF node.kind \in {"def", "class"} /\ node.decos # <<>>
                 THEN node.decos[1] ELSE node.lineno
  IN  RStrip(Slice(src, start, IF node.end_lineno > Len(src) THEN Len(src)
                               ELSE node.end_lineno))

\* One indentation level: four blanks.
IndentUnit == 4

(***************************************************************************)
(* Errors.                                                                 *)
(***************************************************************************)
Err(type, text, name) ==
  [type |-> type, text |-> text, name |-> name, reason |-> "",
   left |-> <<>>, right |-> <<>>]

NoErr == Err("", "", "")

(***************************************************************************)
(* The Merger: m.lines is the line buffer, m.tree the parsed module of the *)
(* last index rebuild, m.err the exception the last call raised.           *)
(***************************************************************************)
\* A membership test on cls_map / fn_map that never finds the name.
InMapNever(tree, kind, name) == FALSE

\* cls_map / fn_map of _index: a later definition of a name replaces an earlier one.
InMap(tree, kind, name) == \E k \in DOMAIN tree : tree[k].kind = kind /\ tree[k].name = name

MapGet(tree, kind, name) ==
  tree[SetMax({k \in DOMAIN tree : tree[k].kind = kind /\ tree[k].name = name})]

\* _refresh_index with the parser's error swallowed: the index of the text
\* before the mutation is kept and the operation returns.
_refresh_index_keeps_stale(m) ==
  IF ~AnyText(m.lines) THEN [m EXCEPT !.tree = <<>>]
  ELSE LET processed == [i \in DOMAIN m.lines |->
                          IF HasText(m.lines[i]) THEN [m.lines[i] EXCEPT !.nl = TRUE]
                          ELSE m.lines[i]]
       IN  IF ParseOK(processed)
             THEN [m EXCEPT !.lines = processed, !.tree = ModuleBody(processed)]
             ELSE m

_refresh_index(m) ==
  IF ~AnyText(m.lines) THEN [m EXCEPT !.tree = <<>>]
  ELSE LET processed == [i \in DOMAIN m.lines |->
                          IF HasText(m.lines[i]) THEN [m.lines[i] EXCEPT !.nl = TRUE]
                          ELSE m.lines[i]]
       IN  IF ParseOK(processed)
             THEN [m EXCEPT !.lines = processed, !.tree = ModuleBody(processed)]
             ELSE [m EXCEPT !.err = Err("SyntaxError", "", "")]

Merger(base_src) ==
  _refresh_index([lines |-> IF base_src # <<>> /\ ~base_src[Len(base_src)].nl
                              THEN [base_src EXCEPT ![Len(base_src)].nl = TRUE]
                              ELSE base_src,
                  tree |-> <<>>, err |-> NoErr])

add_imports(m, imports) ==
  IF imports = <<>> THEN m
  ELSE _refresh_index([m EXCEPT !.lines =
                         _splice(m.lines, _last_import_line(m.tree), Flatten(imports))])

add_class_or_func(m, snippet) ==
  LET clean == EndNL(snippet)
      n == Len(m.lines)
      noprefix == n = 0 \/ ~HasText(m.lines[n])
      fixed == IF n > 0 /\ ~noprefix /\ ~m.lines[n].nl
                 THEN [m.lines EXCEPT ![n].nl = TRUE] ELSE m.lines
  IN  _refresh_index([m EXCEPT !.lines =
        _splice(fixed, Len(fixed), (IF noprefix THEN <<>> ELSE <<Blank>>) \o clean)])

add_methods(m, class_name, methods) ==
  IF ~InMap(m.tree, "class", class_name) THEN m   \* logged, nothing raised
  ELSE
    LET cls_node == MapGet(m.tree, "class", class_name)
        insertion_idx == IF cls_node.body # <<>>
                           THEN cls_node.body[Len(cls_node.body)].end_lineno
                           ELSE cls_node.lineno
        class_indent == IF cls_node.lineno <= Len(m.lines)
                          THEN get_leading_whitespace(m.lines[cls_node.lineno]) ELSE 0
        method_indent == class_indent + IndentUnit
        inrange == insertion_idx >= 1 /\ insertion_idx <= Len(m.lines)
        fixed == IF inrange /\ HasText(m.lines[insertion_idx]) /\ ~m.lines[insertion_idx].nl
                   THEN [m.lines EXCEPT ![insertion_idx].nl = TRUE] ELSE m.lines
        sep == IF inrange
                 THEN (IF HasText(m.lines[insertion_idx]) THEN <<Blank>> ELSE <<>>)
                 ELSE (IF m.lines # <<>> THEN <<Blank>> ELSE <<>>)
        payload == sep \o Flatten([k \in DOMAIN methods |->
                                     _reindent(methods[k], method_indent)])
    IN  _refresh_index([m EXCEPT !.lines = _splice(fixed, insertion_idx, payload)])

\* _signatures_match without the comparison of the **kwargs names.
_signatures_match_no_kwarg(sig1, sig2) ==
  IF sig1.posonly # sig2.posonly
    THEN [ok |-> FALSE, reason |-> "Positional-only arguments differ",
          left |-> sig1.posonly, right |-> sig2.posonly]
  ELSE IF sig1.args # sig2.args
    THEN [ok |-> FALSE, reason |-> "Positional arguments differ",
          left |-> sig1.args, right |-> sig2.args]
  ELSE IF sig1.vararg # sig2.vararg
    THEN [ok |-> FALSE, reason |-> "*args differ",
          left |-> <<sig1.vararg>>, right |-> <<sig2.vararg>>]
  ELSE IF sig1.kwonly # sig2.kwonly
    THEN [ok |-> FALSE, reason |-> "Keyword-only arguments differ",
          left |-> sig1.kwonly, right |-> sig2.kwonly]
  ELSE [ok |-> TRUE, reason |-> "", left |-> <<>>, right |-> <<>>]

\* _signatures_match comparing the positional names before the positional-only ones.
_signatures_match_args_first(sig1, sig2) ==
  IF sig1.args # sig2.args
    THEN [ok |-> FALSE, reason |-> "Positional arguments differ",
          left |-> sig1.args, right |-> sig2.args]
  ELSE IF sig1.posonly # sig2.posonly
    THEN [ok |-> FALSE, reason |-> "Positional-only arguments differ",
          left |-> sig1.posonly, right |-> sig2.posonly]
  ELSE IF sig1.vararg # sig2.vararg
    THEN [ok |-> FALSE, reason |-> "*args differ",
          left |-> <<sig1.vararg>>, right |-> <<sig2.vararg>>]
  ELSE IF sig1.kwonly # sig2.kwonly
    THEN [ok |-> FALSE, reason |-> "Keyword-only arguments differ",
          left |-> sig1.kwonly, right |-> sig2.kwonly]
  ELSE IF sig1.kwarg # sig2.kwarg
    THEN [ok |-> FALSE, reason |-> "**kwargs differ",
          left |-> <<sig1.kwarg>>, right |-> <<sig2.kwarg>>]
  ELSE [ok |-> TRUE, reason |-> "", left |-> <<>>, right |-> <<>>]

\* _signatures_match formatting the second signature's value before the first's.
_signatures_match_swapped(sig1, sig2) ==
  IF sig1.posonly # sig2.posonly
    THEN [ok |-> FALSE, reason |-> "Positional-only arguments differ",
          left |-> sig2.posonly, right |-> sig1.posonly]
  ELSE IF sig1.args # sig2.args
    THEN [ok |-> FALSE, reason |-> "Positional arguments differ",
          left |-> sig2.args, right |-> sig1.args]
  ELSE IF sig1.vararg # sig2.vararg
    THEN [ok |-> FALSE, reason |-> "*args differ",
          left |-> <<sig2.vararg>>, right |-> <<sig1.vararg>>]
  ELSE IF sig1.kwonly # sig2.kwonly
    THEN [ok |-> FALSE, reason |-> "Keyword-only arguments differ",
          left |-> sig2.kwonly, right |-> sig1.kwonly]
  ELSE IF sig1.kwarg # sig2.kwarg
    THEN [ok |-> FALSE, reason |-> "**kwargs differ",
          left |-> <<sig2.kwarg>>, right |-> <<sig1.kwarg>>]
  ELSE [ok |-> TRUE, reason |-> "", left |-> <<>>, right |-> <<>>]

\* The five components in the order they are compared; a *args / **kwargs name
\* is shown as a one-element list, None as <<"None">>.
_signatures_match(sig1, sig2) ==
  IF sig1.posonly # sig2.posonly
    THEN [ok |-> FALSE, reason |-> "Positional-only arguments differ",
          left |-> sig1.posonly, right |-> sig2.posonly]
  ELSE IF sig1.args # sig2.args
    THEN [ok |-> FALSE, reason |-> "Positional arguments differ",
          left |-> sig1.args, right |-> sig2.args]
  ELSE IF sig1.vararg # sig2.vararg
    THEN [ok |-> FALSE, reason |-> "*args differ",
          left |-> <<sig1.vararg>>, right |-> <<sig2.vararg>>]
  ELSE IF sig1.kwonly # sig2.kwonly
    THEN [ok |-> FALSE, reason |-> "Keyword-only arguments differ",
          left |-> sig1.kwonly, right |-> sig2.kwonly]
  ELSE IF sig1.kwarg # sig2.kwarg
    THEN [ok |-> FALSE, reason |-> "**kwargs differ",
          left |-> <<sig1.kwarg>>, right |-> <<sig2.kwarg>>]
  ELSE [ok |-> TRUE, reason |-> "", left |-> <<>>, right |-> <<>>]

\* The methods of a class node named target_name (FunctionDef members only).
MethodsNamed(cls_node, target_name) ==
  {k \in DOMAIN cls_node.body :
     IsFunctionDef(cls_node.body[k]) /\ cls_node.body[k].name = target_name}

\* Resolution of the target callable; target_cls_name = "None" for a function.
TargetError(tree, target_name, target_cls_name) ==
  IF target_cls_name # "None"
    THEN IF ~InMap(tree, "class", target_cls_name)
           THEN Err("ValueError", "Target class not found", target_cls_name)
         ELSE IF MethodsNamed(MapGet(tree, "class", target_cls_name), target_name) = {}
           THEN Err("ValueError", "Target method not found", target_name)
         ELSE NoErr
  ELSE IF ~InMap(tree, "def", target_name)
    THEN Err("ValueError", "Target function not found", target_name)
  ELSE NoErr

TargetNode(tree, target_name, target_cls_name) ==
  IF target_cls_name # "None"
    THEN LET c == MapGet(tree, "class", target_cls_name)
         IN  c.body[SetMin(MethodsNamed(c, target_name))]
    ELSE MapGet(tree, "def", target_name)

\* The decorator merge comparing the decorator lines as written, blanks at
\* the end of a line included.
NewDecosUnstripped(lines, target, dedented, parsed) ==
  LET have == {[lines[target.decos[k]] EXCEPT !.ind = 0, !.nl = FALSE] :
                 k \in DOMAIN target.decos}
      want == SelectSeq(parsed.decos,
                        LAMBDA d : [dedented[d] EXCEPT !.ind = 0, !.nl = FALSE] \notin have)
  IN  [k \in DOMAIN want |->
         [Strip(dedented[want[k]]) EXCEPT
            !.ind = get_leading_whitespace(lines[target.lineno]), !.nl = TRUE]]

\* The decorators of the new callable whose stripped text the target lacks,
\* rebuilt at the indentation of the target's def line.
NewDecos(lines, target, dedented, parsed) ==
  LET have == {Strip(lines[target.decos[k]]) : k \in DOMAIN target.decos}
      want == SelectSeq(parsed.decos, LAMBDA d : Strip(dedented[d]) \notin have)
  IN  [k \in DOMAIN want |->
         [Strip(dedented[want[k]]) EXCEPT
            !.ind = get_leading_whitespace(lines[target.lineno]), !.nl = TRUE]]

\* The statement range of the new callable, as lines of the dedented snippet.
BodyLinesNew(dedented, parsed) ==
  IF parsed.body = <<>> THEN <<>>
  ELSE Slice(dedented, parsed.body[1].lineno, parsed.body[Len(parsed.body)].end_lineno)

\* Indentation given to the appended body.
BodyIndent(lines, target) ==
  LET def_indent == IF target.lineno <= Len(lines)
                      THEN get_leading_whitespace(lines[target.lineno]) ELSE 0
  IN  IF target.body # <<>>
        THEN LET first == target.body[1].lineno IN
             IF first >= 1 /\ first <= Len(lines)
               THEN IF get_leading_whitespace(lines[first]) = 0 /\ HasText(lines[first])
                      THEN def_indent + IndentUnit
                      ELSE get_leading_whitespace(lines[first])
               ELSE def_indent + IndentUnit
        ELSE def_indent + IndentUnit

BodySpliceIdx(target) ==
  IF target.body # <<>> THEN target.body[Len(target.body)].end_lineno ELSE target.lineno

\* Steps 5 and 6 of append_callable_body, on the buffer after the decorator merge.
SpliceBody(m, target, dedented, parsed) ==
  LET body == BodyLinesNew(dedented, parsed)
      idx == BodySpliceIdx(target)
      inrange == idx >= 1 /\ idx <= Len(m.lines)
      noprefix == inrange /\ ~HasText(m.lines[idx])
      fixed == IF inrange /\ HasText(m.lines[idx]) /\ ~m.lines[idx].nl
                 THEN [m.lines EXCEPT ![idx].nl = TRUE] ELSE m.lines
  IN  IF ~AnyText(body) THEN m
      ELSE _refresh_index([m EXCEPT !.lines =
             _splice(fixed, idx, (IF noprefix THEN <<>> ELSE <<Blank>>)
                                   \o _reindent(body, BodyIndent(m.lines, target)))])

\* append_callable_body that keeps the target node found before the
\* decorators were inserted.
append_callable_body_stale_target(m, target_name, new_callable_snippet, target_cls_name) ==
  LET terr == TargetError(m.tree, target_name, target_cls_name)
      target == TargetNode(m.tree, target_name, target_cls_name)
      dedented == dedent(new_callable_snippet)
      new_body == ModuleBody(dedented)
      parsed == new_body[1]
      match == _signatures_match(parsed.sig, target.sig)
      decos == NewDecos(m.lines, target, dedented, parsed)
      m2 == _refresh_index([m EXCEPT !.lines = _splice(m.lines, target.lineno - 1, decos)])
  IN  IF terr # NoErr THEN [m EXCEPT !.err = terr]
      ELSE IF ~ParseOK(dedented)
        THEN [m EXCEPT !.err = Err("ValueError", "Syntax error in new snippet", target_name)]
      ELSE IF new_body = <<>> \/ ~IsFunctionDef(parsed)
        THEN [m EXCEPT !.err = Err("ValueError", "New snippet not a function def", target_name)]
      ELSE IF ~match.ok
        THEN [m EXCEPT !.err = [Err("ValueError", "Signatures differ for", target_name)
                                  EXCEPT !.reason = match.reason,
                                         !.left = match.left, !.right = match.right]]
      ELSE IF decos = <<>> THEN SpliceBody(m, target, dedented, parsed)
      ELSE IF m2.err # NoErr THEN m2
      ELSE IF TargetError(m2.tree, target_name, target_cls_name) # NoErr
        THEN [m2 EXCEPT !.err = Err("ValueError", "Target missing after deco update",
                                    target_name)]
      ELSE SpliceBody(m2, target, dedented, parsed)

append_callable_body(m, target_name, new_callable_snippet, target_cls_name) ==
  LET terr == TargetError(m.tree, target_name, target_cls_name)
      target == TargetNode(m.tree, target_name, target_cls_name)
      dedented == dedent(new_callable_snippet)
      new_body == ModuleBody(dedented)
      parsed == new_body[1]
      match == _signatures_match(parsed.sig, target.sig)
      decos == NewDecos(m.lines, target, dedented, parsed)
      m2 == _refresh_index([m EXCEPT !.lines = _splice(m.lines, target.lineno - 1, decos)])
  IN  IF terr # NoErr THEN [m EXCEPT !.err = terr]
      ELSE IF ~ParseOK(dedented)
        THEN [m EXCEPT !.err = Err("ValueError", "Syntax error in new snippet", target_name)]
      ELSE IF new_body = <<>> \/ ~IsFunctionDef(parsed)
        THEN [m EXCEPT !.err = Err("ValueError", "New snippet not a function def", target_name)]
      ELSE IF ~match.ok
        THEN [m EXCEPT !.err = [Err("ValueError", "Signatures differ for", target_name)
                                  EXCEPT !.reason = match.reason,
                                         !.left = match.left, !.right = match.right]]
      ELSE IF decos = <<>> THEN SpliceBody(m, target, dedented, parsed)
      ELSE IF m2.err # NoErr THEN m2
      ELSE IF TargetError(m2.tree, target_name, target_cls_name) # NoErr
        THEN [m2 EXCEPT !.err = Err("ValueError", "Target missing after deco update",
                                    target_name)]
      ELSE SpliceBody(m2, TargetNode(m2.tree, target_name, target_cls_name),
                      dedented, parsed)

\* Merger.result()
result(m) == m.lines

VARIABLES
  hashseed,                           \* the interpreter's hash of each (class_name, func_name) tuple
  made                                \* the ExtractedFunction constructed last

(***************************************************************************)
(* ExtractedFunction: class_name and func_name are what __hash__ and       *)
(* __eq__ read.  func_name is a str (node = 0) or, when the caller passes  *)
(* an AST node for it, that node (func_name = "", node = its line in the   *)
(* new unit: nodes hash by identity).  func_def = <<>> stands for None.    *)
(***************************************************************************)
ExtractedFunction(class_name, func_name, func_def) ==
  [class_name |-> class_name, func_name |-> func_name, node |-> 0, func_def |-> func_def,
   file_path |-> "None"]

ExtractedFunctionOfNode(class_name, m_node, func_def) ==
  [class_name |-> class_name, func_name |-> "", node |-> m_node.lineno,
   func_def |-> func_def, file_path |-> "None"]

\* The tuple (class_name, func_name) that __hash__ hashes.
Key(e) == <<e.class_name, e.func_name, e.node>>

\* hash() of a tuple of names depends on the interpreter's hash seed, fixed
\* for one process: hashseed maps each tuple to its hash value.  NoCollision
\* is a seed under which the tuples met in the run all hash differently, the
\* hash value then being written as the tuple itself.
NoCollision == <<>>

\* no ExtractedFunction constructed yet
NoIdentity == <<>>

\* __eq__ as a comparison of every field, the default of a data class.
EqByFields(x, y) == x = y

__hash__(e) == IF hashseed = NoCollision THEN Key(e) ELSE hashseed[Key(e)]

\* __eq__ between two ExtractedFunction objects compares their hashes.
__eq__(x, y) == __hash__(x) = __hash__(y)

\* set.add: an element is not added when the set holds one with the same
\* hash that is equal to it.
SetAdd(S, e) ==
  IF \E x \in S : __hash__(x) = __hash__(e) /\ __eq__(x, e) THEN S ELSE S \cup {e}

RECURSIVE SetUpdate(_, _)
SetUpdate(S, es) == IF es = <<>> THEN S ELSE SetUpdate(SetAdd(S, Head(es)), Tail(es))

\* str.startswith("test_") on the names of the model.
TestNames == {"test_a", "test_b", "test_c"}

StartsWithTest(name) == name \in TestNames

(***************************************************************************)
(* Qualified names of the mapping are token sequences: "T.m" is            *)
(* <<"T", ".", "m">>, "nodot" is <<"nodot">>, ".m" is <<".", "m">>.        *)
(***************************************************************************)
HasDot(s) == \E k \in DOMAIN s : s[k] = "."

FirstDot(s) == SetMin({k \in DOMAIN s : s[k] = "."})

\* One identifier as a str; a text with a dot in it, or none at all, is no identifier.
Str(s) == IF Len(s) = 1 THEN s[1] ELSE IF s = <<>> THEN "" ELSE "<dotted>"

\* The mode compared as given, without upper().
UpperOmitted(mode) == mode

\* mode.upper()
Upper(mode) ==
  CASE mode \in {"ADD", "add", "Add"} -> "ADD"
    [] mode \in {"APPEND", "append", "Append"} -> "APPEND"
    [] mode \in {"FOLD", "fold", "Fold"} -> "FOLD"
    [] OTHER -> mode

\* dict.setdefault(key, []).extend(items) on an insertion-ordered dict.
DictExtend(d, key, items) ==
  IF \E k \in DOMAIN d : d[k].key = key
    THEN [k \in DOMAIN d |-> IF d[k].key = key
                               THEN [d[k] EXCEPT !.val = @ \o items] ELSE d[k]]
    ELSE Append(d, [key |-> key, val |-> items])

\* d[key] = item on an insertion-ordered dict.
DictSet(d, key, item) ==
  IF \E k \in DOMAIN d : d[k].key = key
    THEN [k \in DOMAIN d |-> IF d[k].key = key THEN [d[k] EXCEPT !.val = item] ELSE d[k]]
    ELSE Append(d, [key |-> key, val |-> item])

\* The (class, method node, snippet) triples in the order the APPEND loops visit them.
FlatMethods(d) ==
  Flatten([k \in DOMAIN d |->
             [q \in DOMAIN d[k].val |->
                [cls |-> d[k].key, node |-> d[k].val[q].node, snip |-> d[k].val[q].snip]]])

(***************************************************************************)
(* State of one merge_tests call.                                          *)
(***************************************************************************)
VARIABLES
  new_src, base_src, mode, mapping,   \* the arguments
  pc,                                 \* "call", "walk", "mode", "done", "raised"
  lines, tree,                        \* the Merger
  new_tree,                           \* ast.parse(new_src).body
  i, j,                               \* position in new_tree.body / in the pending loops
  base_imps_dump_initial, new_imports_to_add,
  pending_methods_for_add, pending_methods_for_append, pending_functions_for_append,
  merged_test_funcs,
  err,                                \* the exception that ended the call
  ops,                                \* the mutating Merger calls made so far
  pass, first,                        \* second merge of the same unit: pass 2, first result
  call                                \* the call a direct user of the Merger made last

vars == <<new_src, base_src, mode, mapping, pc, lines, tree, new_tree, i, j,
          base_imps_dump_initial, new_imports_to_add, pending_methods_for_add,
          pending_methods_for_append, pending_functions_for_append,
          merged_test_funcs, err, ops, pass, first, hashseed, made, call>>

args == <<new_src, base_src, mode, mapping>>

locals == <<base_imps_dump_initial, new_imports_to_add, pending_methods_for_add,
            pending_methods_for_append, pending_functions_for_append>>

harness == <<pass, first>>

merger == [lines |-> lines, tree |-> tree, err |-> NoErr]

\* no direct Merger call yet
NoCall == <<>>

NoMapping == [none |-> TRUE, d |-> <<>>]

Mapping(d) == [none |-> FALSE, d |-> d]

\* "mapping is None" in place of "not mapping"
MappingIsNone == mapping.none

\* "not mapping": None or an empty dict
MappingFalsy == mapping.none \/ DOMAIN mapping.d = {}

Entry(new_src0, base_src0, mode0, mapping0) ==
  /\ new_src = new_src0 /\ base_src = base_src0 /\ mode = mode0 /\ mapping = mapping0
  /\ pc = "call" /\ lines = <<>> /\ tree = <<>> /\ new_tree = <<>> /\ i = 0 /\ j = 0
  /\ base_imps_dump_initial = {} /\ new_imports_to_add = <<>>
  /\ pending_methods_for_add = <<>> /\ pending_methods_for_append = <<>>
  /\ pending_functions_for_append = <<>>
  /\ merged_test_funcs = {} /\ err = NoErr /\ ops = <<>>
  /\ pass = 1 /\ first = [text |-> <<>>, merged |-> {}]
  /\ hashseed = NoCollision /\ made = NoIdentity /\ call = NoCall

\* The Merger after a call: a raised exception ends merge_tests.
Step(m, op, nextpc) ==
  /\ lines' = m.lines
  /\ tree' = m.tree
  /\ ops' = IF op = "" THEN ops ELSE Append(ops, op)
  /\ err' = m.err
  /\ pc' = IF m.err # NoErr THEN "raised" ELSE nextpc

Raise(e) == pc' = "raised" /\ err' = e

\* merge_tests without the try/except around ast.parse(new_src): the parser's
\* SyntaxError leaves the function as it is.
CallUnwrapped ==
  /\ pc = "call"
  /\ LET m == Merger(base_src)
         ok == ParseOK(new_src)
     IN  /\ IF m.err # NoErr THEN Step(m, "", "walk")
            ELSE IF ~ok
              THEN /\ Raise(Err("SyntaxError", "", ""))
                   /\ lines' = m.lines /\ tree' = m.tree /\ UNCHANGED ops
            ELSE Step(m, "", "walk")
         /\ new_tree' = IF m.err = NoErr /\ ok THEN ModuleBody(new_src) ELSE <<>>
         /\ base_imps_dump_initial' =
              {Dump(m.tree[k]) : k \in {q \in DOMAIN m.tree : IsImport(m.tree[q])}}
  /\ i' = 1
  /\ UNCHANGED <<args, hashseed, made, call, j, new_imports_to_add, pending_methods_for_add,
                 pending_methods_for_append, pending_functions_for_append,
                 merged_test_funcs, harness>>

\* merge_tests, lines 544-560: build the Merger, parse the new unit.
Call ==
  /\ pc = "call"
  /\ LET m == Merger(base_src)
         ok == ParseOK(new_src)
     IN  /\ IF m.err # NoErr THEN Step(m, "", "walk")
            ELSE IF ~ok
              THEN /\ Raise(Err("ValueError", "Invalid syntax in new_src", ""))
                   /\ lines' = m.lines /\ tree' = m.tree /\ UNCHANGED ops
            ELSE Step(m, "", "walk")
         /\ new_tree' = IF m.err = NoErr /\ ok THEN ModuleBody(new_src) ELSE <<>>
         /\ base_imps_dump_initial' =
              {Dump(m.tree[k]) : k \in {q \in DOMAIN m.tree : IsImport(m.tree[q])}}
  /\ i' = 1
  /\ UNCHANGED <<args, hashseed, made, call, j, new_imports_to_add, pending_methods_for_add,
                 pending_methods_for_append, pending_functions_for_append,
                 merged_test_funcs, harness>>

Walking == pc = "walk" /\ i <= Len(new_tree)

node_full_snippet == EndNL(_get_node_source_segment_v2(new_src, new_tree[i]))

\* lines 571-577
WalkImport ==
  /\ Walking /\ IsImport(new_tree[i])
  /\ IF Dump(new_tree[i]) \notin base_imps_dump_initial
       THEN /\ new_imports_to_add' = Append(new_imports_to_add, node_full_snippet)
            /\ base_imps_dump_initial' = base_imps_dump_initial \cup {Dump(new_tree[i])}
       ELSE UNCHANGED <<new_imports_to_add, base_imps_dump_initial>>
  /\ i' = i + 1
  /\ UNCHANGED <<args, hashseed, made, call, new_tree, pc, lines, tree, j, pending_methods_for_add,
                 pending_methods_for_append, pending_functions_for_append,
                 merged_test_funcs, err, ops, harness>>

\* lines 580-590
methods_in_new_class(node) ==
  LET f == SelectSeq(node.body, IsFunctionDef)
  IN  [k \in DOMAIN f |->
         [node |-> f[k], snip |-> EndNL(_get_node_source_segment_v2(new_src, f[k]))]]

\* lines 579-609
WalkClass ==
  /\ Walking /\ IsClassDef(new_tree[i])
  /\ LET node == new_tree[i]
         ms == methods_in_new_class(node)
         tests == SelectSeq(ms, LAMBDA x : StartsWithTest(x.node.name))
     IN  IF Upper(mode) = "ADD" /\ ~InMap(tree, "class", node.name)
           THEN /\ Step(add_class_or_func(merger, node_full_snippet),
                        "add_class_or_func", "walk")
                /\ merged_test_funcs' =
                     SetUpdate(merged_test_funcs,
                               [k \in DOMAIN tests |->
                                  ExtractedFunction(node.name, tests[k].node.name,
                                                    tests[k].snip)])
                /\ UNCHANGED <<pending_methods_for_add, pending_methods_for_append>>
         ELSE /\ pending_methods_for_add' =
                   IF Upper(mode) = "ADD"
                     THEN DictExtend(pending_methods_for_add, node.name, ms)
                     ELSE pending_methods_for_add
              /\ pending_methods_for_append' =
                   IF Upper(mode) = "APPEND"
                     THEN DictExtend(pending_methods_for_append, node.name, ms)
                     ELSE pending_methods_for_append
              /\ UNCHANGED <<pc, lines, tree, err, ops, merged_test_funcs>>
  /\ i' = i + 1
  /\ UNCHANGED <<args, hashseed, made, call, new_tree, j, base_imps_dump_initial, new_imports_to_add,
                 pending_functions_for_append, harness>>

\* lines 611-620
WalkFunction ==
  /\ Walking /\ IsFunctionDef(new_tree[i])
  /\ LET node == new_tree[i] IN
     IF Upper(mode) = "ADD" /\ ~InMap(tree, "def", node.name)
       THEN /\ Step(add_class_or_func(merger, node_full_snippet),
                    "add_class_or_func", "walk")
            /\ merged_test_funcs' =
                 SetAdd(merged_test_funcs,
                        ExtractedFunction("None", node.name, node_full_snippet))
            /\ UNCHANGED pending_functions_for_append
       ELSE /\ pending_functions_for_append' =
                 IF Upper(mode) = "APPEND"
                   THEN DictSet(pending_functions_for_append, node.name, node_full_snippet)
                   ELSE pending_functions_for_append
            /\ UNCHANGED <<pc, lines, tree, err, ops, merged_test_funcs>>
  /\ i' = i + 1
  /\ UNCHANGED <<args, hashseed, made, call, new_tree, j, base_imps_dump_initial, new_imports_to_add,
                 pending_methods_for_add, pending_methods_for_append, harness>>

\* any other top-level statement falls through both isinstance tests
WalkOther ==
  /\ Walking
  /\ ~IsImport(new_tree[i]) /\ ~IsClassDef(new_tree[i]) /\ ~IsFunctionDef(new_tree[i])
  /\ i' = i + 1
  /\ UNCHANGED <<args, hashseed, made, call, new_tree, pc, lines, tree, j, locals, merged_test_funcs, err, ops, harness>>

\* merge_tests without lines 622-623: the queued imports are never inserted.
InsertImportsOmitted ==
  /\ pc = "walk" /\ i > Len(new_tree)
  /\ Step(merger, "", "mode")
  /\ j' = 1
  /\ UNCHANGED <<args, hashseed, made, call, new_tree, i, locals, merged_test_funcs, harness>>

\* lines 622-623
InsertImports ==
  /\ pc = "walk" /\ i > Len(new_tree)
  /\ IF new_imports_to_add # <<>>
       THEN Step(add_imports(merger, new_imports_to_add), "add_imports", "mode")
       ELSE Step(merger, "", "mode")
  /\ j' = 1
  /\ UNCHANGED <<args, hashseed, made, call, new_tree, i, locals, merged_test_funcs, harness>>

\* Line 632-633 and 643: the loop variable `name` is the first component of a
\* pair stored at line 589-590, the FunctionDef node itself; a node is never
\* an element of a set of str.
NameInExisting(m_node, existing_meth_names) == FALSE

\* lines 625-644, one class of pending_methods_for_add
AddPending ==
  /\ pc = "mode" /\ Upper(mode) = "ADD" /\ j <= Len(pending_methods_for_add)
  /\ LET cls_name == pending_methods_for_add[j].key
         new_methods == pending_methods_for_add[j].val
         cbody == MapGet(tree, "class", cls_name).body
         existing_meth_names ==
           {cbody[k].name : k \in {q \in DOMAIN cbody : IsFunctionDef(cbody[q])}}
         keep == SelectSeq(new_methods,
                           LAMBDA x : ~NameInExisting(x.node, existing_meth_names))
         to_add_snippets == [k \in DOMAIN keep |-> keep[k].snip]
     IN  IF InMap(tree, "class", cls_name) /\ to_add_snippets # <<>>
           THEN /\ Step(add_methods(merger, cls_name, to_add_snippets), "add_methods", "mode")
                /\ merged_test_funcs' =
                     SetUpdate(merged_test_funcs,
                               [k \in DOMAIN keep |->
                                  ExtractedFunctionOfNode(cls_name, keep[k].node,
                                                          keep[k].snip)])
           ELSE UNCHANGED <<pc, lines, tree, err, ops, merged_test_funcs>>
  /\ j' = j + 1
  /\ UNCHANGED <<args, hashseed, made, call, new_tree, i, locals, harness>>

AppendMode == pc = "mode" /\ Upper(mode) = "APPEND" /\ ~MappingFalsy

\* An entry whose target cannot be resolved ends the merge instead of being skipped.
SkipRaises ==
  /\ Raise(Err("ValueError", "Bad format", ""))
  /\ UNCHANGED <<lines, tree, ops, merged_test_funcs>>

\* `continue` (lines 652, 663, 677, 682): the entry is skipped.
Skip == UNCHANGED <<pc, lines, tree, err, ops, merged_test_funcs>>

\* The except clause logs the error and goes on with the next entry.
TryAppendSwallowed(tgt_cls, tgt_name, new_snip) ==
  LET m == append_callable_body(merger, tgt_name, new_snip, tgt_cls) IN
  IF m.err # NoErr THEN Skip
  ELSE /\ Step(m, "append_callable_body", "mode")
       /\ merged_test_funcs' =
            SetAdd(merged_test_funcs, ExtractedFunction(tgt_cls, tgt_name, <<>>))

\* The append is recorded under the name of the new callable.
TryAppendRecordsNew(tgt_cls, tgt_name, new_snip) ==
  LET m == append_callable_body(merger, tgt_name, new_snip, tgt_cls) IN
  /\ Step(m, "append_callable_body", "mode")
  /\ merged_test_funcs' =
       IF m.err = NoErr
         THEN SetAdd(merged_test_funcs,
                     ExtractedFunction(tgt_cls, ModuleBody(dedent(new_snip))[1].name, <<>>))
         ELSE merged_test_funcs

\* One append_callable_body call of the APPEND loops and its bookkeeping.
TryAppend(tgt_cls, tgt_name, new_snip) ==
  LET m == append_callable_body(merger, tgt_name, new_snip, tgt_cls) IN
  /\ Step(m, "append_callable_body", "mode")
  /\ merged_test_funcs' =
       IF m.err = NoErr
         THEN SetAdd(merged_test_funcs, ExtractedFunction(tgt_cls, tgt_name, <<>>))
         ELSE merged_test_funcs

\* lines 649-672, one (class, method) of pending_methods_for_append
AppendMethod ==
  /\ AppendMode
  /\ LET fm == FlatMethods(pending_methods_for_append)
         e == fm[j]
         fq_new == <<e.cls, ".", e.node.name>>
         target_fq == mapping.d[fq_new]
         tgt_cls == Slice(target_fq, 1, FirstDot(target_fq) - 1)
         tgt_meth == Slice(target_fq, FirstDot(target_fq) + 1, Len(target_fq))
     IN  /\ j <= Len(fm)
         /\ IF fq_new \notin DOMAIN mapping.d THEN Skip
            ELSE IF ~HasDot(target_fq) \/ tgt_cls = <<>> \/ tgt_meth = <<>> THEN Skip
            ELSE TryAppend(Str(tgt_cls), Str(tgt_meth), e.snip)
  /\ j' = j + 1
  /\ UNCHANGED <<args, hashseed, made, call, new_tree, i, locals, harness>>

\* lines 674-692, one function of pending_functions_for_append
AppendFunction ==
  /\ AppendMode
  /\ LET nm == Len(FlatMethods(pending_methods_for_append))
         e == pending_functions_for_append[j - nm]
         target_func == mapping.d[<<e.key>>]
     IN  /\ j > nm /\ j - nm <= Len(pending_functions_for_append)
         /\ IF <<e.key>> \notin DOMAIN mapping.d THEN Skip
            ELSE IF HasDot(target_func) THEN Skip
            ELSE TryAppend("None", Str(target_func), e.val)
  /\ j' = j + 1
  /\ UNCHANGED <<args, hashseed, made, call, new_tree, i, locals, harness>>

\* lines 647-648
RaiseMissingMapping ==
  /\ pc = "mode" /\ Upper(mode) = "APPEND" /\ MappingFalsy
  /\ Raise(Err("ValueError", "--map is required in APPEND mode.", ""))
  /\ UNCHANGED <<args, hashseed, made, call, new_tree, lines, tree, i, j, locals, merged_test_funcs, ops, harness>>

\* lines 694-695
RaiseFold ==
  /\ pc = "mode" /\ Upper(mode) = "FOLD"
  /\ Raise(Err("NotImplementedError", "FOLD mode not implemented yet", ""))
  /\ UNCHANGED <<args, hashseed, made, call, new_tree, lines, tree, i, j, locals, merged_test_funcs, ops, harness>>

\* lines 696-697
RaiseUnknownMode ==
  /\ pc = "mode" /\ Upper(mode) \notin {"ADD", "APPEND", "FOLD"}
  /\ Raise(Err("ValueError", "Unknown test merge mode", mode))
  /\ UNCHANGED <<args, hashseed, made, call, new_tree, lines, tree, i, j, locals, merged_test_funcs, ops, harness>>

\* line 698: return merger.result(), merged_test_funcs
Return ==
  /\ pc = "mode"
  /\ \/ Upper(mode) = "ADD" /\ j > Len(pending_methods_for_add)
     \/ /\ AppendMode
        /\ j > Len(FlatMethods(pending_methods_for_append))
                 + Len(pending_functions_for_append)
  /\ pc' = "done"
  /\ UNCHANGED <<args, hashseed, made, call, new_tree, lines, tree, i, j, locals, merged_test_funcs, err, ops, harness>>

\* The caller merges the same new unit again into the text the first merge returned.
Remerge ==
  /\ pc = "done" /\ pass = 1
  /\ pass' = 2
  /\ first' = [text |-> result(merger), merged |-> merged_test_funcs]
  /\ base_src' = result(merger)
  /\ pc' = "call" /\ lines' = <<>> /\ tree' = <<>> /\ new_tree' = <<>> /\ i' = 0 /\ j' = 0
  /\ base_imps_dump_initial' = {} /\ new_imports_to_add' = <<>>
  /\ pending_methods_for_add' = <<>> /\ pending_methods_for_append' = <<>>
  /\ pending_functions_for_append' = <<>>
  /\ merged_test_funcs' = {} /\ err' = NoErr /\ ops' = <<>>
  /\ UNCHANGED <<new_src, mode, mapping, hashseed, made, call>>

(***************************************************************************)
(* Source texts the merges are run on.                                     *)
(***************************************************************************)
\* Bounds of the texts.
MaxStmts == 2

MaxIndent == 2

\* Widths of one indentation level in the texts: 2, 4, ...
IndentWidths == {2 * k : k \in 1..MaxIndent}

Deco(ind, name, fmt) == [Ln(ind, "deco", name) EXCEPT !.fmt = fmt]

Import(name, fmt) == [Ln(0, "import", name) EXCEPT !.fmt = fmt]

\* The text of the k-th statement of a base ("b") or new ("n") callable.
SName(tag, k) ==
  IF tag = "b" THEN <<"b0", "b1", "b2", "b3", "b4", "b5">>[k + 1]
  ELSE <<"n0", "n1", "n2", "n3", "n4", "n5">>[k + 1]

\* n statements tag1, tag2, ... at indentation ind
Stmts(ind, tag, n) == [k \in 1..n |-> Ln(ind, "stmt", SName(tag, k))]

\* A body: "flat" n statements, or "nested" (an if block holding them, then one more).
Body(ind, step, tag, shape, n) ==
  IF shape = "flat" THEN Stmts(ind, tag, n)
  ELSE IF shape = "gap" THEN <<Ln(ind, "stmt", SName(tag, 0)), Blank>> \o Stmts(ind, tag, n)
  ELSE <<Ln(ind, "if", SName(tag, 0))>> \o Stmts(ind + step, tag, n)
       \o <<Ln(ind, "stmt", SName(tag, n + 1))>>

\* A function or method definition at indentation ind.  v.line = TRUE puts the
\* (single) statement on the def line.
Callable(ind, name, v) ==
  [k \in DOMAIN v.decos |-> Deco(ind, v.decos[k].name, v.decos[k].fmt)]
  \o (IF v.line THEN <<DefLn(ind, name, v.sig, SName(v.tag, 1))>>
      ELSE <<DefLn(ind, name, v.sig, "")>>
           \o Body(ind + v.step, v.step, v.tag, v.shape, v.n))

Class(name, members) == <<Ln(0, "class", name)>> \o members

\* The signature (self, a) with the components in D replaced by other values.
SigComps == {"posonly", "args", "vararg", "kwonly", "kwarg"}

SigAlt(D) ==
  [posonly |-> IF "posonly" \in D THEN <<"p">> ELSE <<>>,
   args |-> IF "args" \in D THEN <<"self", "b">> ELSE <<"self", "a">>,
   vararg |-> IF "vararg" \in D THEN "va" ELSE "None",
   kwonly |-> IF "kwonly" \in D THEN <<"k">> ELSE <<>>,
   kwarg |-> IF "kwarg" \in D THEN "kw" ELSE "None"]

Sigs == {SigAlt(D) : D \in {E \in SUBSET SigComps : Cardinality(E) <= 2}}

\* How a callable is written.
V(tag, sig, step, shape, n, decos, line) ==
  [tag |-> tag, sig |-> sig, step |-> step, shape |-> shape, n |-> n,
   decos |-> decos, line |-> line]

D(name, fmt) == [name |-> name, fmt |-> fmt]

Plain(tag) == V(tag, SigAlt({}), 4, "flat", 1, <<>>, FALSE)

\* Ways of writing a callable: the plain one changed along one axis.
Variants(tag) ==
  {[Plain(tag) EXCEPT !.step = w, !.n = n] : w \in IndentWidths, n \in 1..MaxStmts}
  \cup {[Plain(tag) EXCEPT !.shape = sh] : sh \in {"nested", "gap"}}
  \cup {[Plain(tag) EXCEPT !.line = TRUE]}
  \cup {[Plain(tag) EXCEPT !.decos = de] :
          de \in {<<D("d1", 0)>>, <<D("d1", 1), D("d2", 0)>>, <<D("d1", 2)>>}}

SigVariants(tag) == {[Plain(tag) EXCEPT !.sig = sg] : sg \in Sigs}
  \cup {[Plain(tag) EXCEPT !.sig = SigAlt({"kwarg"}), !.decos = <<D("d1", 0)>>]}

(***************************************************************************)
(* APPEND merges: the base holds class T with test_a and function f, the   *)
(* new unit class T with test_a and test_b and functions f and g.          *)
(***************************************************************************)
AppendBases ==
  {Class("T", Callable(4, "test_a", v)) \o <<Blank>> \o Callable(0, "f", v) :
     v \in Variants("b")}
  \cup {Class("T", Callable(ci, "test_a", v)) \o <<Blank>> \o Callable(0, "f", Plain("b")) :
          ci \in IndentWidths, v \in {Plain("b"), [Plain("b") EXCEPT !.line = TRUE]}}
  \cup {Class("T", Callable(4, "test_a", [Plain("b") EXCEPT !.sig = sg])
                   \o Callable(4, "helper", Plain("b")))
        \o Callable(0, "f", [Plain("b") EXCEPT !.sig = sg]) :
          sg \in {SigAlt({"vararg", "kwonly"})}}

AppendNews ==
  {Class("T", Callable(4, "test_a", v) \o Callable(4, "test_b", Plain("n")))
   \o Callable(0, "f", v) \o Callable(0, "g", Plain("n")) :
     v \in Variants("n") \cup SigVariants("n")}
  \cup {Class("T", Callable(4, "test_a", Plain("n"))
                   \o Callable(4, "test_b", [Plain("n") EXCEPT !.line = TRUE]))
        \o Callable(0, "f", Plain("n")) \o Callable(0, "g", Plain("n")),
        Class("T", Callable(4, "test_a", Plain("n")) \o Callable(4, "test_b", Plain("n")))
        \o Callable(0, "g", Plain("n")) \o Callable(0, "f", Plain("n"))
        \o Callable(0, "g", [Plain("n") EXCEPT !.shape = "gap"])}

QN(cls, name) == <<cls, ".", name>>

AppendMappings ==
  {Mapping(QN("T", "test_a") :> QN("T", "test_a") @@ <<"f">> :> <<"f">>),
   Mapping(QN("T", "test_a") :> QN("T", "test_a") @@ QN("T", "test_b") :> QN("T", "test_a")
           @@ <<"f">> :> <<"f">> @@ <<"g">> :> <<"f">>),
   Mapping(QN("T", "test_a") :> QN("T", "test_a") @@ QN("T", "test_b") :> QN("T", "missing")),
   Mapping(QN("T", "test_a") :> <<".", "test_a">> @@ QN("T", "test_b") :> <<"nodot">>
           @@ <<"f">> :> QN("T", "test_a")),
   Mapping(QN("T", "test_a") :> <<"T", ".">> @@ <<"g">> :> <<"f">> @@ <<"f">> :> <<"h">>),
   Mapping(QN("T", "test_b") :> QN("U", "test_a") @@ <<"f">> :> <<"f">>),
   Mapping(QN("T", "test_b") :> QN("T", "test_a") @@ <<"f">> :> <<"f">> @@ <<"g">> :> <<>>)}

InitAppend ==
  \E b \in AppendBases, n \in AppendNews, mp \in AppendMappings :
    Entry(n, b, "APPEND", mp)

NextAppend ==
  \/ Call \/ WalkClass \/ WalkFunction \/ InsertImports
  \/ AppendMethod \/ AppendFunction \/ Return

SpecAppend == InitAppend /\ [][NextAppend]_vars

(***************************************************************************)
(* ADD merges, each followed by a second merge of the same new unit.       *)
(***************************************************************************)
Method(ci, name, tag, n) == Callable(ci, name, [Plain(tag) EXCEPT !.n = n])

AsyncDef(name) == <<Ln(0, "async", name)>> \o Stmts(4, "n", 1)

AddBases ==
  {im \o cl \o fn :
     im \in {<<>>, <<Import("os", 0)>>, <<Import("os", 2), Blank>>},
     cl \in {<<>>, Class("T", Method(4, "test_a", "b", 1) \o Method(4, "test_b", "b", 1))}
            \cup {Class("T", Method(ci, "test_a", "b", 1)) : ci \in IndentWidths},
     fn \in {<<>>, Callable(0, "f", Plain("b"))}}

AddNews ==
  {im \o cl \o fn :
     im \in {<<>>, <<Import("os", 0)>>, <<Import("sys", 0), Import("os", 1), Import("sys", 2)>>,
             <<Import("os;sys", 0)>>},
     cl \in {<<>>,
             Class("T", Method(4, "test_a", "n", 1)),
             Class("T", Method(4, "helper", "n", 1) \o Method(4, "test_b", "n", 1)),
             Class("U", Method(4, "test_a", "n", 1) \o Method(4, "helper", "n", 1))}
            \cup {Class("T", Method(4, "test_a", "n", 1) \o Method(4, "test_b", "n", n)) :
                    n \in 1..MaxStmts},
     fn \in {<<>>,
             Callable(0, "f", Plain("n")),
             Callable(0, "f", Plain("n")) \o Callable(0, "f", [Plain("n") EXCEPT !.n = MaxStmts]),
             Callable(0, "g", [Plain("n") EXCEPT !.decos = <<D("d1", 0)>>]),
             <<Ln(0, "stmt", "n0")>> \o AsyncDef("h")}}

InitAdd == \E b \in AddBases, n \in AddNews : Entry(n, b, "ADD", NoMapping)

NextAdd ==
  \/ Call \/ WalkImport \/ WalkClass \/ WalkFunction \/ WalkOther \/ InsertImports
  \/ AddPending \/ Return \/ Remerge

SpecAdd == InitAdd /\ [][NextAdd]_vars

(***************************************************************************)
(* merge_tests on every mode, with and without a mapping, on texts that    *)
(* parse and texts that do not.                                            *)
(***************************************************************************)
Modes == {"ADD", "add", "APPEND", "Append", "FOLD", "fold", "Fold", "MERGE"}

BadText == <<Ln(0, "bad", "")>>

\* A text whose last line has no terminator.
NoEndNL(S) == [S EXCEPT ![Len(S)].nl = FALSE]

Bases ==
  {<<>>, BadText,
   <<Import("os", 0)>> \o Callable(0, "f", Plain("b")),
   NoEndNL(Callable(0, "f", Plain("b")))}
  \cup {Class("T", Method(ci, "test_a", "b", n)) \o <<Blank>> \o Callable(0, "f", Plain("b")) :
          ci \in IndentWidths, n \in 1..MaxStmts}

\* A text with an unexpected indent.
BadIndent == <<Ln(0, "stmt", "n0"), Ln(4, "stmt", "n1")>>

News ==
  {<<>>, BadText, BadIndent,
   <<Import("sys", 0)>> \o Callable(0, "f", Plain("n")),
   <<Import("os", 0)>> \o Class("T", Method(4, "test_a", "n", 1)),
   Class("T", Method(4, "test_b", "n", 1)) \o Callable(0, "g", Plain("n")),
   <<Ln(0, "stmt", "n0")>> \o AsyncDef("h") \o <<Import("sys", 0)>>,
   <<Import("json;n0", 0)>> \o Callable(0, "g", Plain("n")),
   NoEndNL(<<Import("sys", 0)>>)}

Mappings ==
  {NoMapping, Mapping(<<>>),
   Mapping(QN("T", "test_a") :> QN("T", "test_a") @@ <<"f">> :> <<"f">>)}

Init ==
  \E b \in Bases, n \in News, md \in Modes, mp \in Mappings : Entry(n, b, md, mp)

Next ==
  \/ Call \/ WalkImport \/ WalkClass \/ WalkFunction \/ WalkOther \/ InsertImports
  \/ AddPending \/ AppendMethod \/ AppendFunction
  \/ RaiseMissingMapping \/ RaiseFold \/ RaiseUnknownMode \/ Return

Spec == Init /\ [][Next]_vars

(***************************************************************************)
(* Properties of ADD merges (SpecAdd).                                     *)
(***************************************************************************)
\* The names of the FunctionDef members of a class node.
MethodNames(cls_node) ==
  {cls_node.body[k].name : k \in {q \in DOMAIN cls_node.body : IsFunctionDef(cls_node.body[q])}}

\* C1: ADD idempotence.  When merge_tests(N, B, "ADD") succeeded with text B1,
\* merge_tests(N, B1, "ADD") returns (it does not raise), the text it returns
\* is B1 and its merged-callable set is empty.
C1_AddIdempotent ==
  (pass = 2 /\ pc \in {"done", "raised"}) =>
    /\ pc = "done"
    /\ result(merger) = first.text
    /\ merged_test_funcs = {}

\* C2: when an ADD merge of a new unit returns, then for every class of the
\* new unit that the base already had, the merged-callable set holds for that
\* class exactly the identities (class name, method name) of the new class's
\* methods whose names the base class did not have, each such method is in
\* the class once, and every method name the base class had is still there
\* once.
C2_AddsNewOnlyMethods ==
  (pass = 1 /\ pc = "done" /\ Upper(mode) = "ADD") =>
    LET base == Merger(base_src).tree IN
    \A c \in DOMAIN new_tree :
      (IsClassDef(new_tree[c]) /\ InMap(base, "class", new_tree[c].name)) =>
        LET cls == new_tree[c].name
            old == MethodNames(MapGet(base, "class", cls))
            fresh == MethodNames(new_tree[c]) \ old
            now == MapGet(tree, "class", cls)
        IN  /\ {Key(e) : e \in {x \in merged_test_funcs : x.class_name = cls}}
                 = {<<cls, n, 0>> : n \in fresh}
            /\ \A n \in old \cup fresh : Cardinality(MethodsNamed(now, n)) = 1

(***************************************************************************)
(* Properties of APPEND merges (SpecAppend).  The entries of the APPEND    *)
(* loops are numbered as the loops visit them: the methods of              *)
(* pending_methods_for_append, then the functions of                       *)
(* pending_functions_for_append; j is the entry visited next.              *)
(***************************************************************************)
EntryCount ==
  Len(FlatMethods(pending_methods_for_append)) + Len(pending_functions_for_append)

\* Entry k has no usable mapping: a method whose "Class.method" key is absent
\* or whose value has no dot or an empty part, a function whose name is
\* absent or whose value has a dot.
SkipEntry(k) ==
  LET fm == FlatMethods(pending_methods_for_append)
      nm == Len(fm)
  IN  IF k <= nm
        THEN LET key == <<fm[k].cls, ".", fm[k].node.name>> IN
             \/ key \notin DOMAIN mapping.d
             \/ ~HasDot(mapping.d[key])
             \/ FirstDot(mapping.d[key]) \in {1, Len(mapping.d[key])}
        ELSE LET key == <<pending_functions_for_append[k - nm].key>> IN
             \/ key \notin DOMAIN mapping.d
             \/ HasDot(mapping.d[key])

\* The append_callable_body call entry k leads to: target class ("None" for a
\* function), target name and the new callable's snippet.
CallAt(k) ==
  LET fm == FlatMethods(pending_methods_for_append)
      nm == Len(fm)
  IN  IF k <= nm
        THEN LET v == mapping.d[<<fm[k].cls, ".", fm[k].node.name>>] IN
             [cls |-> Str(SubSeq(v, 1, FirstDot(v) - 1)),
              name |-> Str(SubSeq(v, FirstDot(v) + 1, Len(v))),
              snip |-> fm[k].snip]
        ELSE LET e == pending_functions_for_append[k - nm] IN
             [cls |-> "None", name |-> Str(mapping.d[<<e.key>>]), snip |-> e.val]

\* Entry k makes a call.
Calls(k) == k >= 1 /\ k <= EntryCount /\ ~SkipEntry(k)

\* The call of entry k finds its target in the index.
Resolves(k) ==
  Calls(k) /\ TargetError(tree, CallAt(k).name, CallAt(k).cls) = NoErr

\* The new callable of entry k is a function definition that parses.
NewIsDef(k) ==
  LET d == dedent(CallAt(k).snip) IN
  ParseOK(d) /\ ModuleBody(d) # <<>> /\ IsFunctionDef(ModuleBody(d)[1])

NewDef(k) == ModuleBody(dedent(CallAt(k).snip))[1]

Target(k) == TargetNode(tree, CallAt(k).name, CallAt(k).cls)

\* The components in which the new callable and the target of entry k differ,
\* as positions in the order of comparison.
CompOrder == <<"posonly", "args", "vararg", "kwonly", "kwarg">>

Differing(k) ==
  {q \in DOMAIN CompOrder : NewDef(k).sig[CompOrder[q]] # Target(k).sig[CompOrder[q]]}

SignatureDiffers(k) == Resolves(k) /\ NewIsDef(k) /\ Differing(k) # {}

SignatureRaised == pc = "raised" /\ err.text = "Signatures differ for"

\* C3: signature gate.  When the new callable of the entry visited next and
\* its resolved target differ in one of the five signature components, the
\* call raises ValueError ("Signatures differ for ...") and the line buffer
\* and the index are what they were before the call.
C3_SignatureGate ==
  [][(AppendMode /\ SignatureDiffers(j)) =>
       /\ pc' = "raised"
       /\ err'.type = "ValueError" /\ err'.text = "Signatures differ for"
       /\ lines' = lines /\ tree' = tree]_vars

\* C3 witness: the gate raised for a new callable that carries a decorator
\* the target lacks, after an earlier entry of the merge had been appended.
C3_Witness ==
  /\ SignatureRaised
  /\ NewDef(j - 1).decos # <<>> /\ Target(j - 1).decos = <<>>
  /\ merged_test_funcs # {}

ReasonOf(comp) ==
  CASE comp = "posonly" -> "Positional-only arguments differ"
    [] comp = "args" -> "Positional arguments differ"
    [] comp = "vararg" -> "*args differ"
    [] comp = "kwonly" -> "Keyword-only arguments differ"
    [] comp = "kwarg" -> "**kwargs differ"

\* How the message shows a component: a list of names, or the one name.
Shown(sig, comp) == IF comp \in {"vararg", "kwarg"} THEN <<sig[comp]>> ELSE sig[comp]

\* C4: the message of a signature mismatch names the first component, in the
\* order positional-only, positional, *args, keyword-only, **kwargs, in which
\* the two callables differ, and gives the new callable's value for it, then
\* "vs", then the target's value.
C4_FirstDifferenceNewVsTarget ==
  SignatureRaised =>
    LET comp == CompOrder[SetMin(Differing(j - 1))] IN
    /\ Differing(j - 1) # {}
    /\ err.type = "ValueError"
    /\ err.reason = ReasonOf(comp)
    /\ err.left = Shown(NewDef(j - 1).sig, comp)
    /\ err.right = Shown(Target(j - 1).sig, comp)

\* C4 witness: the callables differ in two components and the earlier one in
\* the order is the one reported.
C4_Witness ==
  /\ SignatureRaised
  /\ Cardinality(Differing(j - 1)) = 2
  /\ err.reason = "Positional-only arguments differ"
  /\ NewDef(j - 1).sig.args # Target(j - 1).sig.args

\* Scenario 4: the target is method test_a(self, a) of class T, the new
\* method mapped to it is test_a(self, b), nothing else differs.
Scenario4(k) ==
  /\ Calls(k) /\ CallAt(k).cls = "T" /\ CallAt(k).name = "test_a"
  /\ Target(k).sig = Args(<<"self", "a">>)
  /\ NewDef(k).sig = Args(<<"self", "b">>)

\* C5 as stated: in scenario 4 the merge fails with a signature mismatch that
\* names the positional arguments and lists the target's parameters first,
\* the new callable's second: [self, a] vs [self, b].
C5_TargetListedFirst ==
  (pc \in {"done", "raised"} /\ Scenario4(1)) =>
    /\ SignatureRaised
    /\ err.reason = "Positional arguments differ"
    /\ err.left = <<"self", "a">> /\ err.right = <<"self", "b">>

\* C5 amended: in scenario 4 the merge fails with ValueError "Signatures
\* differ for 'test_a'", the reason names the positional arguments, and the
\* new callable's parameters come first: [self, b] vs [self, a]; the buffer
\* is the base text.
C5_NewListedFirst ==
  (pc \in {"done", "raised"} /\ Scenario4(1)) =>
    /\ SignatureRaised
    /\ err.type = "ValueError" /\ err.name = "test_a"
    /\ err.reason = "Positional arguments differ"
    /\ err.left = <<"self", "b">> /\ err.right = <<"self", "a">>
    /\ lines = Merger(base_src).lines

C5_Witness == pc = "raised" /\ Scenario4(1) /\ err.reason = "Positional arguments differ"

\* The source of a callable node in a buffer, from its def line to its end.
CallableSource(L, node) == Slice(L, node.lineno, node.end_lineno)

\* The statements of the new callable of entry k, dedented: the lines below
\* its def line, or the statement written on the def line.
NewBodyText(k) ==
  LET d == dedent(CallAt(k).snip)
      def == d[NewDef(k).lineno]
  IN  IF def.inl # "" THEN <<Ln(0, "stmt", def.inl)>>
      ELSE dedent(SelectSeq(Slice(d, NewDef(k).lineno + 1, NewDef(k).end_lineno), HasText))

\* Entry k, one-line callables apart: target and new callable both have their
\* bodies below the def line.
BothMultiLine(k) ==
  /\ lines[Target(k).lineno].inl = ""
  /\ dedent(CallAt(k).snip)[NewDef(k).lineno].inl = ""

\* The append of entry j kept the target's source as a prefix of its new
\* source, and what follows it there is the new callable's body.
PrefixPreserved ==
  LET pre == CallableSource(lines, Target(j))
      post == CallableSource(lines', TargetNode(tree', CallAt(j).name, CallAt(j).cls))
  IN  /\ Len(post) >= Len(pre)
      /\ SubSeq(post, 1, Len(pre)) = pre
      /\ dedent(SelectSeq(SubSeq(post, Len(pre) + 1, Len(post)), HasText)) = NewBodyText(j)

\* C6: prefix preservation.  After every successful append_callable_body the
\* target callable's source, from its def line to its end, starts with exactly
\* its source before the call, and the rest of it is the new callable's body,
\* dedented and re-indented; one-line targets and one-line new callables
\* included.
C6_PrefixPreservation ==
  [][(AppendMode /\ Calls(j) /\ pc' = "mode") => PrefixPreserved]_vars

\* C6 restricted to callables whose bodies are below their def lines.
C6_PrefixPreservationMultiLine ==
  [][(AppendMode /\ Calls(j) /\ pc' = "mode" /\ BothMultiLine(j)) => PrefixPreserved]_vars

\* The call of entry k fails with a fatal error: its target class, method or
\* function is not in the index, or the signatures differ.
Fatal(k) ==
  Calls(k) /\ (TargetError(tree, CallAt(k).name, CallAt(k).cls) # NoErr
               \/ SignatureDiffers(k))

FatalTexts ==
  {"Target class not found", "Target method not found", "Target function not found",
   "Signatures differ for"}

\* C7: a missing target or a signature mismatch of the entry visited next ends
\* merge_tests with that ValueError, whatever was appended before; and once an
\* exception has been raised no further step is taken: no entry is processed
\* and nothing is returned.
C7_FatalPropagates ==
  [][/\ pc # "raised"
     /\ (AppendMode /\ Fatal(j)) =>
          /\ pc' = "raised"
          /\ err'.type = "ValueError" /\ err'.text \in FatalTexts
          /\ merged_test_funcs' = merged_test_funcs]_vars

\* C7 witness: a missing target method ended the merge after an earlier entry
\* had been appended and while entries were left.
C7_Witness ==
  /\ pc = "raised" /\ err.text = "Target method not found"
  /\ merged_test_funcs # {} /\ lines # Merger(base_src).lines
  /\ j <= EntryCount

\* C8: an entry without a usable mapping, when its turn comes, is passed over:
\* nothing is raised, buffer, index and merged-callable set stay as they are,
\* and the loops go on with the next entry.
C8_SkipsUnresolved ==
  [][(AppendMode /\ j <= EntryCount /\ SkipEntry(j)) =>
       /\ pc' = "mode" /\ err' = NoErr
       /\ lines' = lines /\ tree' = tree
       /\ merged_test_funcs' = merged_test_funcs
       /\ j' = j + 1]_vars

\* C8 witness: merge_tests returned after skipping an entry and appending a
\* later one.
C8_Witness ==
  /\ pc = "done" /\ merged_test_funcs # {}
  /\ \E k1, k2 \in 1..EntryCount : k1 < k2 /\ SkipEntry(k1) /\ ~SkipEntry(k2)

\* C8 witness of the other end: every entry was skipped, the text returned is
\* the base text and the merged-callable set is empty.
C8_AllSkipped ==
  /\ pc = "done" /\ merged_test_funcs = {} /\ EntryCount > 0
  /\ \A k \in 1..EntryCount : SkipEntry(k)
  /\ lines = Merger(base_src).lines

(***************************************************************************)
(* Properties of merge_tests in every mode (Spec).                         *)
(***************************************************************************)
\* C9: when APPEND mode raises for the missing mapping, no mutating Merger
\* operation has been applied: the buffer is the base text.
C9_RaisedBeforeMutation ==
  (pc = "raised" /\ err.text = "--map is required in APPEND mode.") =>
    /\ ops = <<>>
    /\ lines = Merger(base_src).lines

FoldModes == {"FOLD", "fold", "Fold"}

\* C10 as stated: a call with mode FOLD, in any letter case, ends by raising
\* NotImplementedError, whatever the two texts are.
C10_FoldAlwaysNotImplemented ==
  (mode \in FoldModes /\ pc \in {"done", "raised"}) =>
    pc = "raised" /\ err.type = "NotImplementedError"

\* C10 amended: a call with mode FOLD, in any letter case, never returns; it
\* raises SyntaxError when the base text does not parse, ValueError ("Invalid
\* syntax in new_src") when the base parses and the new unit does not, and
\* otherwise NotImplementedError, unless inserting the new imports raised
\* SyntaxError first.
C10_FoldNeverReturns ==
  (mode \in FoldModes /\ pc \in {"done", "raised"}) =>
    /\ pc = "raised"
    /\ IF Merger(base_src).err # NoErr THEN err.type = "SyntaxError" /\ ops = <<>>
       ELSE IF ~ParseOK(new_src)
         THEN err.type = "ValueError" /\ err.text = "Invalid syntax in new_src"
              /\ ops = <<>>
       ELSE \/ err.type = "NotImplementedError"
            \/ err.type = "SyntaxError" /\ ops = <<"add_imports">>

\* C10 witness: mode "fold", both texts parse, the new imports were inserted
\* and NotImplementedError was raised.
C10_Witness ==
  /\ mode = "fold" /\ pc = "raised" /\ err.type = "NotImplementedError"
  /\ ops = <<"add_imports">>

\* C11 as stated: when the new unit does not parse, merge_tests raises
\* ValueError "Invalid syntax in new_src" with no mutating Merger operation
\* applied, in every mode and for every base.
C11_InvalidNewAlwaysValueError ==
  (~ParseOK(new_src) /\ pc \in {"done", "raised"}) =>
    /\ pc = "raised"
    /\ err.type = "ValueError" /\ err.text = "Invalid syntax in new_src"
    /\ ops = <<>>

\* C11 amended: when the new unit does not parse, merge_tests raises with no
\* mutating Merger operation applied, in every mode: SyntaxError from building
\* the Merger when the base does not parse either, and otherwise ValueError
\* "Invalid syntax in new_src" with the buffer holding the base text.
C11_InvalidNewRaisesFirst ==
  (~ParseOK(new_src) /\ pc \in {"done", "raised"}) =>
    /\ pc = "raised"
    /\ ops = <<>>
    /\ IF Merger(base_src).err # NoErr THEN err.type = "SyntaxError"
       ELSE /\ err.type = "ValueError" /\ err.text = "Invalid syntax in new_src"
            /\ lines = Merger(base_src).lines

\* C11 witness: an ADD merge into a base with text, ended by the new unit's
\* syntax error.
C11_Witness ==
  /\ pc = "raised" /\ err.text = "Invalid syntax in new_src"
  /\ mode = "ADD" /\ AnyText(base_src) /\ new_src = BadIndent

\* C12: in an ADD merge no add_class_or_func and no add_methods call comes
\* before the add_imports call in the sequence of mutating Merger calls.
C12_ImportsInsertedFirst ==
  mode = "ADD" =>
    \A k \in DOMAIN ops :
      ops[k] = "add_imports" =>
        \A q \in 1..(k - 1) : ops[q] \notin {"add_class_or_func", "add_methods"}

\* The positions of the add_imports calls among the mutating Merger calls.
ImportCalls == {k \in DOMAIN ops : ops[k] = "add_imports"}

\* C12 amended: in an ADD merge the new classes and functions are inserted
\* while the new unit is walked, then the queued imports are inserted by one
\* add_imports call, then the add_methods calls follow: every call before
\* add_imports is an add_class_or_func, every call after it an add_methods,
\* and once the walk is over with imports queued the call has been made.
C12_ImportsAfterWalkBeforeMethods ==
  mode = "ADD" =>
    /\ Cardinality(ImportCalls) <= 1
    /\ \A k \in ImportCalls :
         /\ \A q \in 1..(k - 1) : ops[q] = "add_class_or_func"
         /\ \A q \in (k + 1)..Len(ops) : ops[q] = "add_methods"
    /\ \A k \in DOMAIN ops :
         ops[k] = "add_methods" => \A q \in (k + 1)..Len(ops) : ops[q] = "add_methods"
    /\ (pc \in {"mode", "done"} /\ new_imports_to_add # <<>>) => ImportCalls # {}

\* C12 witness: a class or function was inserted, then the imports, then
\* methods were added to an existing class.
C12_Witness ==
  /\ mode = "ADD" /\ pc = "done"
  /\ ops = <<"add_class_or_func", "add_imports", "add_methods">>

\* How often the import structure d occurs among the top-level statements T.
ImportCount(T, d) == Cardinality({k \in DOMAIN T : IsImport(T[k]) /\ Dump(T[k]) = d})

ImportDumps(T) == {Dump(T[k]) : k \in {q \in DOMAIN T : IsImport(T[q])}}

\* C13: once the imports of the new unit have been inserted, every import
\* structure the base had occurs as often as in the base, and every other
\* import structure of the new unit occurs once.
C13_ImportsDeduplicated ==
  (pc \in {"mode", "done"} /\ mode = "ADD") =>
    LET base == Merger(base_src).tree IN
    /\ \A d \in ImportDumps(base) : ImportCount(tree, d) = ImportCount(base, d)
    /\ \A d \in ImportDumps(new_tree) \ ImportDumps(base) : ImportCount(tree, d) = 1

\* C13 for new units whose import lines hold one statement each.
C13_ImportsDeduplicatedOnePerLine ==
  (pc \in {"mode", "done"} /\ mode = "ADD"
   /\ \A k \in DOMAIN new_src : Len(ImportNames(new_src[k].name)) = 1) =>
    LET base == Merger(base_src).tree IN
    /\ \A d \in ImportDumps(base) : ImportCount(tree, d) = ImportCount(base, d)
    /\ \A d \in ImportDumps(new_tree) \ ImportDumps(base) : ImportCount(tree, d) = 1

\* The names of the top-level FunctionDef statements of T.
FunctionNames(T) == {T[k].name : k \in {q \in DOMAIN T : T[q].kind = "def"}}

\* The source of top-level node n of the new unit, decorators included.
NewSource(n) ==
  SubSeq(new_src, IF n.decos # <<>> THEN n.decos[1] ELSE n.lineno, n.end_lineno)

\* The ADD walk is at a top-level function of the new unit.
AtNewFunction ==
  mode = "ADD" /\ pc = "walk" /\ i <= Len(new_tree) /\ new_tree[i].kind = "def"

\* C14: when the ADD walk reaches a top-level function of the new unit whose
\* name is a top-level function of the buffer, the step changes neither the
\* buffer nor the merged-callable set and raises nothing; when the name is
\* not there and the step returns, the buffer is the old buffer followed by
\* the function's whole source (a blank line between them), and the identity
\* (None, name) has been added to the merged-callable set.
C14_AddFunctionFrame ==
  [][AtNewFunction =>
       IF new_tree[i].name \in FunctionNames(tree)
         THEN /\ lines' = lines /\ tree' = tree
              /\ merged_test_funcs' = merged_test_funcs
              /\ pc' = "walk" /\ err' = NoErr
         ELSE pc' = "walk" =>
                /\ lines' \in {lines \o NewSource(new_tree[i]),
                               lines \o <<Blank>> \o NewSource(new_tree[i])}
                /\ {Key(e) : e \in merged_test_funcs'} =
                     {Key(e) : e \in merged_test_funcs}
                       \cup {<<"None", new_tree[i].name, 0>>}]_vars

\* C14 witness: the new unit defines f twice, the base did not have f; the
\* first definition was added and recorded, the second left the buffer alone.
C14_Witness ==
  /\ mode = "ADD" /\ pass = 1 /\ pc = "done"
  /\ Cardinality({k \in DOMAIN new_tree : new_tree[k].kind = "def" /\ new_tree[k].name = "f"}) = 2
  /\ Cardinality({k \in DOMAIN tree : tree[k].kind = "def" /\ tree[k].name = "f"}) = 1
  /\ "f" \notin FunctionNames(Merger(base_src).tree)
  /\ \E e \in merged_test_funcs : Key(e) = <<"None", "f", 0>>

\* The (class, callable) names of a parsed text: (None, f) for a top-level
\* function f, (C, m) for a method m of a top-level class C.
CallableNames(T) ==
  {<<"None", T[k].name>> : k \in {q \in DOMAIN T : T[q].kind = "def"}}
  \cup UNION {{<<T[k].name, n>> : n \in MethodNames(T[k])} :
                k \in {q \in DOMAIN T : T[q].kind = "class"}}

\* The number of function and method definitions of a parsed text.
DefCount(T) ==
  Cardinality({<<k, 0>> : k \in {q \in DOMAIN T : T[q].kind = "def"}}
              \cup UNION {{<<k, q>> : q \in {r \in DOMAIN T[k].body : IsFunctionDef(T[k].body[r])}} :
                            k \in {q \in DOMAIN T : T[q].kind = "class"}})

\* C15: after a successful ADD merge the (class, callable) names of the
\* merged text are those of the base and of the new unit together, and the
\* merged text has as many function and method definitions as the base plus
\* one for every name of the new unit that the base did not have.
C15_RoundTripSuperset ==
  (mode = "ADD" /\ pass = 1 /\ pc = "done") =>
    LET base == Merger(base_src).tree IN
    /\ CallableNames(tree) = CallableNames(base) \cup CallableNames(new_tree)
    /\ DefCount(tree) =
         DefCount(base) + Cardinality(CallableNames(new_tree) \ CallableNames(base))

\* C15 for new units none of whose classes the base already has.
C15_RoundTripSupersetNewClasses ==
  (mode = "ADD" /\ pass = 1 /\ pc = "done"
   /\ \A k \in DOMAIN new_tree :
        new_tree[k].kind = "class" =>
          \A q \in DOMAIN Merger(base_src).tree :
            ~(Merger(base_src).tree[q].kind = "class"
              /\ Merger(base_src).tree[q].name = new_tree[k].name)) =>
    LET base == Merger(base_src).tree IN
    /\ CallableNames(tree) = CallableNames(base) \cup CallableNames(new_tree)
    /\ DefCount(tree) =
         DefCount(base) + Cardinality(CallableNames(new_tree) \ CallableNames(base))

\* The targets, as (class, name, 0) keys, of the calls made by the entries before k.
TargetsBefore(k) ==
  {<<CallAt(q).cls, CallAt(q).name, 0>> : q \in {r \in 1..(k - 1) : Calls(r)}}

\* C16: while an APPEND merge runs and when it returns, the merged-callable
\* set holds exactly one identity for every target that an entry visited so
\* far was appended to, made of the class and name of the mapping value
\* (class None for a function); skipped entries add nothing.
C16_AppendRecordsTargets ==
  (mode = "APPEND" /\ pc \in {"mode", "done"}) =>
    /\ {Key(e) : e \in merged_test_funcs} = TargetsBefore(j)
    /\ Cardinality(merged_test_funcs) = Cardinality(TargetsBefore(j))

\* C16 witness: four entries were appended to two targets, two of them under
\* names that differ from the new callables' names.
C16_Witness ==
  /\ mode = "APPEND" /\ pc = "done"
  /\ Cardinality({k \in 1..EntryCount : Calls(k)}) = 4
  /\ {Key(e) : e \in merged_test_funcs} = {<<"T", "test_a", 0>>, <<"None", "f", 0>>}

(***************************************************************************)
(* ExtractedFunction objects on their own: objects are constructed with    *)
(* any func_def and file_path and added to one set (merged_test_funcs),    *)
(* under every hash seed that sends the (class_name, func_name) tuples to  *)
(* HashRange hash values, collisions included.                             *)
(***************************************************************************)
HashRange == 2

IdentityPairs == {<<"None", "test_a">>, <<"T", "test_a">>, <<"T", "test_b">>}

IdentityDefs == {<<>>, Callable(0, "test_a", Plain("n"))}

IdentityPaths == {"None", "tests/test_t.py"}

Identities ==
  {[ExtractedFunction(p[1], p[2], d) EXCEPT !.file_path = f] :
     p \in IdentityPairs, d \in IdentityDefs, f \in IdentityPaths}

HashSeeds == [{Key(e) : e \in Identities} -> 0..(HashRange - 1)]

InitIdentity ==
  /\ hashseed \in HashSeeds /\ made = NoIdentity /\ call = NoCall
  /\ new_src = <<>> /\ base_src = <<>> /\ mode = "ADD" /\ mapping = NoMapping
  /\ pc = "constructed" /\ lines = <<>> /\ tree = <<>> /\ new_tree = <<>> /\ i = 0 /\ j = 0
  /\ base_imps_dump_initial = {} /\ new_imports_to_add = <<>>
  /\ pending_methods_for_add = <<>> /\ pending_methods_for_append = <<>>
  /\ pending_functions_for_append = <<>>
  /\ merged_test_funcs = {} /\ err = NoErr /\ ops = <<>>
  /\ pass = 1 /\ first = [text |-> <<>>, merged |-> {}]

\* ExtractedFunction(class_name, func_name, func_def, file_path)
Construct ==
  /\ pc \in {"constructed", "added"}
  /\ \E e \in Identities : made' = e
  /\ pc' = "constructed"
  /\ UNCHANGED <<args, hashseed, call, lines, tree, new_tree, i, j, locals,
                 merged_test_funcs, err, ops, harness>>

\* merged_test_funcs.add(made)
AddToSet ==
  /\ pc = "constructed" /\ made # NoIdentity
  /\ merged_test_funcs' = SetAdd(merged_test_funcs, made)
  /\ pc' = "added"
  /\ UNCHANGED <<args, hashseed, made, call, lines, tree, new_tree, i, j, locals, err, ops, harness>>

NextIdentity == Construct \/ AddToSet

SpecIdentity == InitIdentity /\ [][NextIdentity]_vars

SamePair(x, y) == x.class_name = y.class_name /\ x.func_name = y.func_name /\ x.node = y.node

\* C17: two identities whose (class_name, func_name) pairs are equal are equal
\* and have equal hashes, whatever their func_def and file_path, under every
\* hash seed; and the set never holds two elements with the same pair.
C17_IdentityByPair ==
  /\ \A x \in Identities, y \in Identities :
       SamePair(x, y) => __eq__(x, y) /\ __hash__(x) = __hash__(y)
  /\ \A x \in merged_test_funcs, y \in merged_test_funcs : SamePair(x, y) => x = y

\* An identity was added whose pair the set already holds with another
\* func_def and another file_path: the set kept the old element only.
C17_Witness ==
  /\ pc = "added" /\ made \notin merged_test_funcs
  /\ \E x \in merged_test_funcs :
       SamePair(x, made) /\ x.func_def # made.func_def /\ x.file_path # made.file_path

\* The stripped source of the decorators of a callable, in their order.
DecoTexts(L, node) == [k \in DOMAIN node.decos |-> Strip(L[node.decos[k]])]

Occurrences(seq, t) == Cardinality({k \in DOMAIN seq : seq[k] = t})

SeqRange(seq) == {seq[k] : k \in DOMAIN seq}

\* Entry j is appended to its target and append_callable_body returns.
AppendSucceeds ==
  /\ AppendMode /\ Resolves(j)
  /\ ops' = Append(ops, "append_callable_body") /\ pc' # "raised"

\* C18: in every append_callable_body call that returns, a decorator of the
\* new callable whose stripped source the target already carries is not
\* inserted, every other decorator of the new callable is inserted, and each
\* decorator text the target carried occurs as often as before (once, when
\* the target's decorators were distinct).
C18_DecoratorsDeduplicated ==
  [][AppendSucceeds =>
       LET old == DecoTexts(lines, Target(j))
           new == DecoTexts(dedent(CallAt(j).snip), NewDef(j))
           after == DecoTexts(lines', TargetNode(tree', CallAt(j).name, CallAt(j).cls))
       IN  \A t \in SeqRange(old) \cup SeqRange(new) \cup SeqRange(after) :
             Occurrences(after, t) =
               Occurrences(old, t) + (IF t \in SeqRange(old) THEN 0 ELSE Occurrences(new, t))
  ]_vars

\* C18 witness: function f of the base carries one decorator; the new f
\* carries the same one written with blanks at its end and a second one;
\* after the merge f carries the base's decorator once and the second one.
C18_Witness ==
  /\ mode = "APPEND" /\ pc = "done" /\ <<"None", "f", 0>> \in {Key(e) : e \in merged_test_funcs}
  /\ LET bt == TargetNode(ModuleBody(base_src), "f", "None")
         nt == TargetNode(ModuleBody(new_src), "f", "None")
         at == TargetNode(tree, "f", "None")
     IN  /\ Len(bt.decos) = 1 /\ Len(nt.decos) = 2
         /\ new_src[nt.decos[1]].fmt # base_src[bt.decos[1]].fmt
         /\ Strip(new_src[nt.decos[1]]) = Strip(base_src[bt.decos[1]])
         /\ DecoTexts(lines, at) = DecoTexts(base_src, bt) \o <<Strip(new_src[nt.decos[2]])>>

ClassNames(T) == {T[k].name : k \in {q \in DOMAIN T : T[q].kind = "class"}}

\* C19: the text a successful APPEND merge returns has the top-level class
\* names, the top-level function names and the method names of each class
\* that the base has, no more and no fewer.
C19_AppendAddsNoNames ==
  (mode = "APPEND" /\ pc = "done") =>
    /\ ClassNames(ModuleBody(lines)) = ClassNames(ModuleBody(base_src))
    /\ CallableNames(ModuleBody(lines)) = CallableNames(ModuleBody(base_src))

\* The same for bases whose definitions all have their body on lines of its own.
C19_AppendAddsNoNamesMultiLine ==
  (mode = "APPEND" /\ pc = "done" /\ \A k \in DOMAIN base_src : base_src[k].inl = "") =>
    /\ ClassNames(ModuleBody(lines)) = ClassNames(ModuleBody(base_src))
    /\ CallableNames(ModuleBody(lines)) = CallableNames(ModuleBody(base_src))

\* The call ended with the parser's error on the text or the buffer.
ParseRaised == pc = "raised" /\ err.type = "SyntaxError"

\* C20: once the Merger is constructed, and after every Merger operation that
\* returned, the buffer parses and the tree (with it cls_map and fn_map, which
\* are read off the tree) is the parse of the buffer; a buffer that does not
\* parse is only ever seen together with the parser's error ending the call.
C20_IndexConsistent ==
  (pc \in {"walk", "mode", "fold", "done", "raised"}) =>
    IF ParseRaised THEN ~ParseOK(lines)
    ELSE ParseOK(lines) /\ tree = ModuleBody(lines)

\* C20 witness: a merge made two kinds of mutating calls, changed the buffer
\* and returned.
C20_Witness ==
  /\ pc = "done" /\ lines # Merger(base_src).lines
  /\ Cardinality(SeqRange(ops)) >= 2
  /\ tree = ModuleBody(lines) /\ tree # ModuleBody(base_src)

\* A mutation left a buffer that does not parse and the call ended with the
\* parser's error.
C20_WitnessRaised ==
  /\ ParseRaised /\ ops # <<>> /\ ~ParseOK(lines) /\ ParseOK(base_src)

(***************************************************************************)
(* The Merger used directly: a Merger is constructed over a base text that *)
(* parses and up to MaxCalls of its operations are called, with arguments  *)
(* that merge_tests would never pass as well (a class or target that is    *)
(* not indexed, an empty list).  call records the last call and the buffer *)
(* and tree it found.                                                      *)
(***************************************************************************)
MaxCalls == 2

MergerBases ==
  {<<>>,
   <<Import("os", 0), Ln(0, "stmt", "b0"), Import("sys", 0)>>
     \o Callable(0, "f", Plain("b")) \o <<Ln(4, "import", "json")>>,
   Class("T", Method(4, "test_a", "b", 1)) \o Callable(0, "f", Plain("b"))}
  \cup {<<Import("os", 0)>> \o Class("T", Callable(ci, "test_a", [Plain("b") EXCEPT !.step = ci]))
        \o <<Blank>> \o Callable(0, "f", Plain("b")) : ci \in IndentWidths}

ImportLists ==
  {<<>>, <<<<Import("sys", 0)>>>>, <<<<Import("json", 0)>>, <<Import("sys", 2)>>>>}

MethodLists ==
  {<<Method(4, "test_n", "n", 1)>>,
   <<Method(4, "test_n", "n", 1), Method(2, "test_m", "n", 1)>>}

Snippets ==
  {Callable(0, "g", Plain("n")),
   Class("U", Method(4, "test_u", "n", 1)),
   Callable(4, "test_a", [Plain("n") EXCEPT !.decos = <<D("d1", 0)>>]),
   Callable(0, "g", [Plain("n") EXCEPT !.line = TRUE])}

\* (target_name, target_cls_name) pairs; "None" for no class.
TargetNames == {<<"f", "None">>, <<"test_a", "T">>, <<"test_a", "None">>}

InitMerger ==
  /\ \E b \in MergerBases :
       /\ base_src = b /\ lines = Merger(b).lines /\ tree = Merger(b).tree
  /\ new_src = <<>> /\ mode = "ADD" /\ mapping = NoMapping
  /\ pc = "merger" /\ new_tree = <<>> /\ i = 0 /\ j = 0
  /\ base_imps_dump_initial = {} /\ new_imports_to_add = <<>>
  /\ pending_methods_for_add = <<>> /\ pending_methods_for_append = <<>>
  /\ pending_functions_for_append = <<>>
  /\ merged_test_funcs = {} /\ err = NoErr /\ ops = <<>>
  /\ pass = 1 /\ first = [text |-> <<>>, merged |-> {}]
  /\ hashseed = NoCollision /\ made = NoIdentity /\ call = NoCall

\* One call of a Merger operation by its user.
Called(op, m, name, cls, payload) ==
  /\ pc = "merger" /\ Len(ops) < MaxCalls
  /\ Step(m, op, "merger")
  /\ call' = [op |-> op, name |-> name, cls |-> cls, payload |-> payload,
              lines |-> lines, tree |-> tree]
  /\ UNCHANGED <<args, hashseed, made, new_tree, i, j, locals, merged_test_funcs, harness>>

\* merger.add_methods(class_name, methods)
CallAddMethods ==
  \E class_name \in {"T", "U"}, methods \in MethodLists :
    Called("add_methods", add_methods(merger, class_name, methods), "", class_name, methods)

\* merger.add_imports(imports)
CallAddImports ==
  \E imports \in ImportLists :
    Called("add_imports", add_imports(merger, imports), "", "", imports)

\* merger.add_class_or_func(snippet)
CallAddClassOrFunc ==
  \E snippet \in Snippets :
    Called("add_class_or_func", add_class_or_func(merger, snippet), "", "", snippet)

\* merger.append_callable_body(target_name, new_callable_snippet, target_cls_name)
CallAppendCallableBody ==
  \E t \in TargetNames, snippet \in Snippets :
    Called("append_callable_body", append_callable_body(merger, t[1], snippet, t[2]),
           t[1], t[2], snippet)

NextMerger == CallAddImports \/ CallAddClassOrFunc \/ CallAddMethods \/ CallAppendCallableBody

SpecMerger == InitMerger /\ [][NextMerger]_vars

\* C21: add_methods called with a class name that is not in the class index
\* raises and leaves the buffer as it was.
C21_MissingClassRaises ==
  (pc \in {"merger", "raised"} /\ call # NoCall /\ call.op = "add_methods"
     /\ ~InMap(call.tree, "class", call.cls)) =>
    pc = "raised" /\ lines = call.lines

\* What the code does then: it returns, the buffer as it was.
C21_MissingClassReturns ==
  (pc \in {"merger", "raised"} /\ call # NoCall /\ call.op = "add_methods"
     /\ ~InMap(call.tree, "class", call.cls)) =>
    pc = "merger" /\ err = NoErr /\ lines = call.lines /\ tree = call.tree

\* The lines an insertion at line index pos added to the buffer of the call.
Inserted(pos) == SubSeq(lines, pos + 1, pos + Len(lines) - Len(call.lines))

\* Smallest indentation of the lines of S that hold text.
MinIndent(S) == SetMin({S[k].ind : k \in {q \in DOMAIN S : HasText(S[q])}})

\* add_methods was called for an indexed class and returned.
AddMethodsReturned ==
  /\ pc = "merger" /\ call # NoCall /\ call.op = "add_methods"
  /\ InMap(call.tree, "class", call.cls)

\* The class node of the call, in the index the call found.
CalledClass == MapGet(call.tree, "class", call.cls)

\* C22: the methods add_methods inserts are indented as the first body line
\* of the class is (header indentation plus one level when the class has no
\* body line).
C22_IndentOfFirstBodyLine ==
  AddMethodsReturned =>
    LET c == CalledClass
        at == c.body[Len(c.body)].end_lineno
    IN  MinIndent(Inserted(at)) = call.lines[c.body[1].lineno].ind

\* What the code does: header indentation plus one level, whatever the
\* indentation of the class body.
C22_IndentOfHeaderPlusUnit ==
  AddMethodsReturned =>
    LET c == CalledClass
        at == c.body[Len(c.body)].end_lineno
    IN  MinIndent(Inserted(at)) = call.lines[c.lineno].ind + IndentUnit

\* The last line of the text L that is an import statement at top level (0
\* when there is none).
LastTopImport(L) ==
  LET I == {k \in DOMAIN L : L[k].kind = "import" /\ L[k].ind = 0}
  IN  IF I = {} THEN 0 ELSE SetMax(I)

\* The lines of a list of snippets, each line with its terminator.
PayloadLines(payload) ==
  LET f == Flatten(payload) IN [k \in DOMAIN f |-> [f[k] EXCEPT !.nl = TRUE]]

\* C23: after an add_imports call the buffer is the buffer of before with the
\* lines of the list, in the order given, put directly after the last
\* top-level import line (at the top when there is none): the lines before
\* and after that place are the old ones in their order.  With an empty list
\* buffer and index are as before.
C23_ImportsAfterLastImport ==
  (pc = "merger" /\ call # NoCall /\ call.op = "add_imports") =>
    LET at == LastTopImport(call.lines)
        new == PayloadLines(call.payload)
    IN  /\ lines = SubSeq(call.lines, 1, at) \o new
                     \o SubSeq(call.lines, at + 1, Len(call.lines))
        /\ call.payload = <<>> => tree = call.tree

\* C23 witness: two imports were inserted behind an import that has lines
\* before and after it.
C23_Witness ==
  /\ pc = "merger" /\ call # NoCall /\ call.op = "add_imports" /\ Len(call.payload) = 2
  /\ LastTopImport(call.lines) > 1 /\ LastTopImport(call.lines) < Len(call.lines)
  /\ Len(lines) = Len(call.lines) + 2

\* The decorators of the new callable of entry k whose stripped source the
\* target does not carry, in their order.
LackedDecos(k) ==
  LET have == SeqRange(DecoTexts(lines, Target(k)))
  IN  SelectSeq(DecoTexts(dedent(CallAt(k).snip), NewDef(k)), LAMBDA t : t \notin have)

\* C24: in every append_callable_body call that returns, the decorators the
\* target lacks stand, at the indentation of the target's def line, on the
\* lines directly before that def line; everything above, the target's own
\* decorators included, is as before; the target is found again at its
\* shifted line, its old lines follow the inserted decorators unchanged and
\* the lines behind the target's last statement are the last lines of the
\* buffer, so the body went in behind the shifted last statement.
C24_DecoratorsBeforeDef ==
  [][AppendSucceeds =>
       LET t == Target(j)
           d == t.lineno
           e == BodySpliceIdx(t)
           want == LackedDecos(j)
           n == Len(want)
           after == TargetNode(tree', CallAt(j).name, CallAt(j).cls)
       IN  /\ SubSeq(lines', 1, d - 1) = SubSeq(lines, 1, d - 1)
           /\ \A k \in 1..n :
                lines'[d - 1 + k] = [want[k] EXCEPT !.ind = lines[d].ind, !.nl = TRUE]
           /\ after.lineno = d + n
           /\ SubSeq(lines', d + n, e + n) = SubSeq(lines, d, e)
           /\ SubSeq(lines', Len(lines') - (Len(lines) - e) + 1, Len(lines'))
                = SubSeq(lines, e + 1, Len(lines))
  ]_vars

\* C24 witness: method test_a of the base carries decorator d1; after the
\* merge d1 and the new d2 stand before its def line, both at its
\* indentation, and statements of the new unit were appended.
C24_Witness ==
  /\ mode = "APPEND" /\ pc = "done"
  /\ \A k \in DOMAIN base_src : base_src[k].name # "d2"
  /\ \E k \in DOMAIN lines :
       /\ k + 2 <= Len(lines)
       /\ lines[k].kind = "deco" /\ lines[k].name = "d1"
       /\ lines[k + 1].kind = "deco" /\ lines[k + 1].name = "d2"
       /\ lines[k + 2].kind = "def" /\ lines[k + 2].name = "test_a"
       /\ lines[k].ind = lines[k + 2].ind /\ lines[k + 1].ind = lines[k + 2].ind
       /\ lines[k].ind > 0
  /\ Len(lines) > Len(base_src) + 1

\* The lines the append of entry j put behind the target's last statement.
AppendedText ==
  LET e == BodySpliceIdx(Target(j))
      n == Len(LackedDecos(j))
  IN  SubSeq(lines', e + n + 1, Len(lines') - (Len(lines) - e))

\* C25: what an append_callable_body call that returns puts behind the
\* target's statements holds no def line and no decorator line: it is made of
\* the new callable's statements only, for every new callable, one with its
\* body on the def line included.
C25_AppendsStatementsOnly ==
  [][AppendSucceeds =>
       \A k \in DOMAIN AppendedText : AppendedText[k].kind \notin {"def", "deco"}]_vars

\* C25 for new callables whose body stands below the def line.
C25_AppendsStatementsOnlyMultiLine ==
  [][(AppendSucceeds /\ dedent(CallAt(j).snip)[NewDef(j).lineno].inl = "") =>
       /\ \A k \in DOMAIN AppendedText : AppendedText[k].kind \notin {"def", "deco"}
       /\ SelectSeq(AppendedText, HasText) # <<>>]_vars

\* The lines of A occur in B in their order (B is A with lines inserted).
RECURSIVE IsSubsequence(_, _)
IsSubsequence(A, B) ==
  IF A = <<>> THEN TRUE
  ELSE IF B = <<>> THEN FALSE
  ELSE IF Head(A) = Head(B) THEN IsSubsequence(Tail(A), Tail(B))
  ELSE IsSubsequence(A, Tail(B))

\* The base text as the Merger holds it: its last line given a terminator.
BaseLines == Merger(base_src).lines

\* Every function and method of the parsed text T0 of L0 is a function or
\* method of the parsed text T of L, with the same source.
SameSources(L0, T0, L, T) ==
  \A n \in CallableNames(T0) :
    /\ n \in CallableNames(T)
    /\ CallableSource(L, TargetNode(T, n[2], n[1]))
         = CallableSource(L0, TargetNode(T0, n[2], n[1]))

\* The calls made so far are those an ADD merge makes on classes it found.
AddCallsOnly == SeqRange(ops) \subseteq {"add_imports", "add_methods"}

\* C26: after any sequence of Merger calls that returned, the lines of the
\* base text occur in the buffer in their order and unchanged; and after the
\* calls of an ADD merge every function and method of the base is in the
\* buffer with the source it had.
C26_OnlyInserts ==
  (pc = "merger") =>
    /\ IsSubsequence(BaseLines, lines)
    /\ AddCallsOnly => SameSources(BaseLines, ModuleBody(BaseLines), lines, tree)

\* The part of C26 about lines, for calls that raised as well.
C26_BaseLinesKept ==
  (pc \in {"merger", "raised"}) => IsSubsequence(BaseLines, lines)

\* The (class, name) pairs of the entries in the order the APPEND loops visit them.
EntryNames ==
  LET fm == FlatMethods(pending_methods_for_append)
  IN  [k \in DOMAIN fm |-> <<fm[k].cls, fm[k].node.name>>]
      \o [k \in DOMAIN pending_functions_for_append |->
            <<"None", pending_functions_for_append[k].key>>]

\* The callables of the new unit in source order: the methods of its classes,
\* grouped by class name in the order the names first occur, then its
\* top-level functions.
SourceOrder ==
  LET cls == {k \in DOMAIN new_tree : new_tree[k].kind = "class"}
      firsts == SortedSeq({k \in cls :
                            \A q \in cls : new_tree[q].name = new_tree[k].name => q >= k})
      methods(k) == LET ms == SelectSeq(new_tree[k].body, IsFunctionDef)
                    IN  [q \in DOMAIN ms |-> <<new_tree[k].name, ms[q].name>>]
      group(k) == LET same == SortedSeq({q \in cls : new_tree[q].name = new_tree[k].name})
                  IN  Flatten([q \in DOMAIN same |-> methods(same[q])])
      fns == SelectSeq(new_tree, IsFunctionDef)
  IN  Flatten([k \in DOMAIN firsts |-> group(firsts[k])])
      \o [k \in DOMAIN fns |-> <<"None", fns[k].name>>]

NewNames == {SName("n", k) : k \in 0..5}

\* A line that came from the body of a callable of the new unit.
FromNewBody(l) ==
  \/ l.kind \in {"stmt", "if"} /\ l.name \in NewNames
  \/ l.kind = "def" /\ l.inl \in NewNames

\* The target of entry j has been appended to before in this merge.
AppendedBefore == <<CallAt(j).cls, CallAt(j).name, 0>> \in {Key(e) : e \in merged_test_funcs}

\* The lines of the class that holds the target of entry j (of the target
\* itself when it is a function).
TargetRegion ==
  LET c == IF CallAt(j).cls = "None" THEN Target(j) ELSE MapGet(tree, "class", CallAt(j).cls)
  IN  c.lineno..c.end_lineno

\* C27: the APPEND loops visit the callables of the new unit in source order
\* (methods grouped by class, then functions), one entry for each; when the
\* target of an append has been appended to before, the new body is put
\* behind everything appended to it so far, and the target stays in the
\* merged-callable set once.
C27_AppendsInSourceOrder ==
  [][/\ AppendMode => EntryNames = SourceOrder
     /\ (AppendSucceeds /\ AppendedBefore) =>
          /\ \A k \in TargetRegion : FromNewBody(lines[k]) => k <= BodySpliceIdx(Target(j))
          /\ Cardinality({e \in merged_test_funcs' :
                            Key(e) = <<CallAt(j).cls, CallAt(j).name, 0>>}) = 1
  ]_vars

\* C27 for new units that define no function twice and targets whose body
\* stands below the def line.
C27_AppendsInSourceOrderMultiLine ==
  [][/\ (AppendMode /\ Len(SelectSeq(new_tree, IsFunctionDef))
                         = Cardinality(FunctionNames(new_tree)))
          => EntryNames = SourceOrder
     /\ (AppendSucceeds /\ AppendedBefore /\ lines[Target(j).lineno].inl = "") =>
          /\ \A k \in TargetRegion : FromNewBody(lines[k]) => k <= BodySpliceIdx(Target(j))
          /\ Cardinality({e \in merged_test_funcs' :
                            Key(e) = <<CallAt(j).cls, CallAt(j).name, 0>>}) = 1
  ]_vars

\* C28: the text merge_tests returns, in ADD and in APPEND mode, parses: it
\* is the buffer of the last index rebuild, whose parse is the Merger's tree.
C28_ReturnedTextParses ==
  (pc = "done") =>
    /\ Upper(mode) \in {"ADD", "APPEND"}
    /\ ParseOK(result(merger))
    /\ ModuleBody(result(merger)) = tree

\* C28 witness: an APPEND merge and an ADD merge each changed the text and
\* returned; here the APPEND one.
C28_Witness ==
  /\ pc = "done" /\ Upper(mode) = "APPEND"
  /\ ops # <<>> /\ result(merger) # BaseLines /\ ParseOK(result(merger))

C28_WitnessAdd ==
  /\ pc = "done" /\ Upper(mode) = "ADD"
  /\ Len(ops) >= 2 /\ result(merger) # BaseLines /\ ParseOK(result(merger))

\* A top-level statement that is neither an import, a class definition nor a
\* synchronous function definition.
OtherNode(n) == ~IsImport(n) /\ ~IsClassDef(n) /\ ~IsFunctionDef(n)

OtherStatements(T) ==
  LET S == SelectSeq(T, OtherNode)
  IN  [k \in DOMAIN S |-> <<S[k].kind, S[k].name>>]

NewHasOther == \E k \in DOMAIN new_tree : OtherNode(new_tree[k])

\* C29: in ADD and in APPEND mode the other top-level statements of the new
\* unit are never merged: the merged text has the other top-level statements
\* of the base text and no more, and no merged callable bears the name of one.
C29_OtherStatementsNeverMerged ==
  (pc \in {"walk", "mode", "done"} /\ Upper(mode) \in {"ADD", "APPEND"} /\ NewHasOther) =>
    /\ OtherStatements(tree) = OtherStatements(ModuleBody(BaseLines))
    /\ \A e \in merged_test_funcs, k \in DOMAIN new_tree :
         OtherNode(new_tree[k]) => e.func_name # new_tree[k].name

\* C29, the walk alone: the loop step over such a statement changes neither
\* the buffer, nor the index, nor the queues, nor the merged-callable set.
C29_WalkSkipsOtherStatements ==
  [][(pc = "walk" /\ i <= Len(new_tree) /\ OtherNode(new_tree[i]))
       => UNCHANGED <<lines, tree, ops, locals, merged_test_funcs>>]_vars

\* C29, for new units whose import lines hold one statement each.
C29_OtherStatementsNeverMergedOwnLine ==
  (\A k \in DOMAIN new_src : Len(ImportNames(new_src[k].name)) = 1) =>
    C29_OtherStatementsNeverMerged

C29_SkippedAndReturned ==
  /\ pc = "done" /\ NewHasOther /\ Upper(mode) \in {"ADD", "APPEND"}
  /\ \A k \in DOMAIN new_src : Len(ImportNames(new_src[k].name)) = 1

EmptyMapping == Upper(mode) = "APPEND" /\ mapping = Mapping(<<>>)

MissingMappingRaised ==
  pc = "raised" /\ err.type = "ValueError" /\ err.text = "--map is required in APPEND mode."

\* C30: in APPEND mode with an empty mapping dictionary merge_tests raises the
\* missing-mapping ValueError, whatever the texts, and returns no merged text.
C30_EmptyMappingAlwaysMissingMapping ==
  (EmptyMapping /\ pc \in {"done", "raised"}) => MissingMappingRaised

\* C30, amended: in APPEND mode with an empty mapping dictionary merge_tests
\* never returns and no callable is appended or recorded as merged; once the
\* mode branch is reached the missing-mapping ValueError is raised, as with an
\* absent mapping.  Earlier errors come first: the SyntaxError of a base that
\* does not parse, the ValueError of a new unit that does not parse, the
\* SyntaxError of the import insertion.
C30_EmptyMappingLikeAbsent ==
  (Upper(mode) = "APPEND" /\ mapping \in {NoMapping, Mapping(<<>>)}) =>
    /\ pc # "done"
    /\ merged_test_funcs = {}
    /\ \A k \in DOMAIN ops : ops[k] = "add_imports"
    /\ pc = "raised" =>
         IF Merger(base_src).err # NoErr THEN err.type = "SyntaxError" /\ ops = <<>>
         ELSE IF ~ParseOK(new_src)
           THEN err.type = "ValueError" /\ err.text = "Invalid syntax in new_src"
                /\ ops = <<>>
         ELSE \/ MissingMappingRaised
              \/ err.type = "SyntaxError" /\ ops = <<"add_imports">>

\* C30 witness: an empty dictionary, a new unit with a function the base has
\* too, and the missing-mapping error raised.
C30_Witness ==
  /\ EmptyMapping /\ MissingMappingRaised
  /\ \E k \in DOMAIN new_tree : IsFunctionDef(new_tree[k]) /\ InMap(tree, "def", new_tree[k].name)
====
